---- MODULE Spec2Model ----
(***************************************************************************)
(* Asynchronous job orchestration of the inspection backend: the Job      *)
(* Store (services/job.service.js), the two broker adapters               *)
(* (queues/inspection.queue.js over RabbitMQ, queues/inspection.bullmq.js *)
(* over BullMQ), the enqueue entry points of the controllers and the      *)
(* worker handlers.                                                       *)
(***************************************************************************)
EXTENDS Integers, Sequences, FiniteSets, Bags, TLC

VARIABLES backend, jobs, msgs, req, wk, backlog, faults, storeFaults, calls, last, mq, relay, rm, gate, adm, rabbit

vars == <<backend, jobs, msgs, req, wk, backlog, faults, storeFaults, calls, last, mq, relay, rm, gate, adm, rabbit>>

(***************************************************************************)
(* Bounds of the model: photos of a job, worker processes, handler         *)
(* exceptions and Job Store failures injected in one behaviour, entries    *)
(* appended by direct Job Store calls.                                     *)
(***************************************************************************)
MaxPhotos == 2
MaxProcs == 2
MaxFaults == 2
MaxStoreFaults == 1
MaxEvents == 2
MaxCalls == 1
MaxCallers == 2
MaxCloses == 1
MaxSockets == 2
MaxAdds == 2
MaxCancels == 1
MaxPublishers == 2
MaxConfigured == 2
MaxDepth == 3

(***************************************************************************)
(* Program constants (config/config.js defaults, queue and worker options).*)
(***************************************************************************)
MaxPending == 500
Prefetch == 5
Concurrency == 2
Attempts == 3
DefaultMaxPending == 500

\* The model follows one job through the pipeline; the messages of all
\* other jobs are the backlog of the queue.
JobIds == {1}
Procs == 1..MaxProcs

Min(a, b) == IF a < b THEN a ELSE b
Max(a, b) == IF a > b THEN a ELSE b

(***************************************************************************)
(* Job Store: the Job document and the operations of job.service.js.      *)
(***************************************************************************)
NoUnits == -1

Statuses == {"pending", "queued", "processing", "completed", "failed", "cancelled"}

\* A slot of the store that holds no document.  completedAt is 0 while
\* unset, then the number of the write that stamped it: every new Date()
\* is a later time than the one before.
NoJob ==
  [status |-> "absent", progress |-> 0, processedUnits |-> 0, totalUnits |-> 0,
   lastError |-> "", result |-> "", events |-> <<>>, completedAt |-> 0,
   units |-> 0, ai |-> FALSE]

\* One entry of Job.events; progress is optional.
Event(type, message, hasProgress, progress) ==
  [type |-> type, message |-> message, hasProgress |-> hasProgress,
   progress |-> IF hasProgress THEN progress ELSE 0]

\* createJob without the events of the create call: the schema default [].
createJobNoEntry(totalUnits, units, ai) ==
  [status |-> "pending", progress |-> 0, processedUnits |-> 0,
   totalUnits |-> totalUnits, lastError |-> "", result |-> "",
   events |-> <<>>, completedAt |-> 0, units |-> units, ai |-> ai]

\* Job.create with the schema defaults and the job.created entry.
createJob(totalUnits, units, ai) ==
  [status |-> "pending", progress |-> 0, processedUnits |-> 0,
   totalUnits |-> totalUnits, lastError |-> "", result |-> "",
   events |-> <<Event("job.created", "Job created", TRUE, 0)>>,
   completedAt |-> 0, units |-> units, ai |-> ai]

\* The arguments of updateJobProgress; an absent argument is hasX = FALSE,
\* NoUnits, or the empty string.
Upd(processedUnits, totalUnits, hasProgress, progress, status, message) ==
  [processedUnits |-> processedUnits, totalUnits |-> totalUnits,
   hasProgress |-> hasProgress, progress |-> progress,
   status |-> status, message |-> message]

\* Clamp without the clamping.
ClampUnclamped(p) == p

\* Math.max(0, Math.min(100, progress))
Clamp(p) == Max(0, Min(100, p))

\* findByIdAndUpdate with upsert: a missing document is created.
findByIdAndUpdateUpsert(job, updated) == updated

\* Job.findByIdAndUpdate(jobId, update): the update applied atomically to the
\* document when it exists, nothing (and a null result) when it does not.
findByIdAndUpdate(job, updated) == IF job.status = "absent" THEN job ELSE updated

\* updateJobProgress: $set of the provided fields (completedAt with a
\* terminal status), $push of a job.update entry when a message is given.
updateJobProgress(job, u) ==
  LET setProgress == IF u.hasProgress THEN Clamp(u.progress) ELSE job.progress
      pushed == IF u.message # ""
                  THEN Append(job.events,
                         Event("job.update", u.message, u.hasProgress,
                               Clamp(u.progress)))
                  ELSE job.events
  IN findByIdAndUpdate(job,
       [job EXCEPT
          !.processedUnits = IF u.processedUnits # NoUnits THEN u.processedUnits ELSE @,
          !.totalUnits = IF u.totalUnits # NoUnits THEN u.totalUnits ELSE @,
          !.progress = setProgress,
          !.status = IF u.status # "" THEN u.status ELSE @,
          !.completedAt = IF u.status \in {"completed", "failed", "cancelled"}
                            THEN @ + 1 ELSE @,
          !.events = pushed])

\* appendJobEvent: $push only; the entry's progress is stored as given.
appendJobEvent(job, type, message, hasProgress, progress) ==
  findByIdAndUpdate(job,
    [job EXCEPT !.events = Append(@, Event(type, message, hasProgress, progress))])

\* First write of markJobCompleted: updateJobProgress(completed, 100).
markJobCompletedUpdate(job, message) ==
  updateJobProgress(job,
    Upd(NoUnits, NoUnits, TRUE, 100, "completed",
        IF message # "" THEN message ELSE "Job completed successfully"))

\* Second write of markJobCompleted: $set result.
markJobCompletedResult(job, result) ==
  findByIdAndUpdate(job, [job EXCEPT !.result = result])

\* markJobFailed writing the events field with $set instead of $push.
markJobFailedSetEvents(job, error) ==
  findByIdAndUpdate(job,
    [job EXCEPT !.status = "failed", !.lastError = error,
                !.completedAt = @ + 1,
                !.events = <<Event("job.failed", error, FALSE, 0)>>])

\* markJobFailed: one findByIdAndUpdate.
markJobFailed(job, error) ==
  findByIdAndUpdate(job,
    [job EXCEPT !.status = "failed", !.lastError = error,
                !.completedAt = @ + 1,
                !.events = Append(@, Event("job.failed", error, FALSE, 0))])

\* markJobQueued: updateJobProgress(status queued, 'Job queued').
markJobQueued(job) ==
  updateJobProgress(job, Upd(NoUnits, NoUnits, FALSE, 0, "queued", "Job queued"))

(***************************************************************************)
(* Event Relay.  The API server processes hold a socket.io server (io) and *)
(* subscribe to the socket:events channel; a worker process has no io.     *)
(***************************************************************************)
ApiProcs == {"api1", "api2"}
WorkerProc == "worker"

\* The API process that serves the requests of the model.
ApiServer == "api1"

\* io is set by initSocket, which only the API server start-up calls.
HasIo(proc) == proc \in ApiProcs

\* What one Job Store call (with the handler's own emit after it) emitted:
\* the event names, whether they went over the socket:events channel, and
\* the API processes that emitted them to their clients in the room.
NoEmission == [events |-> <<>>, published |-> FALSE, local |-> {}]

\* emitInspectionEvent: io.of('/inspections').to(room).emit on the socket
\* server of the calling process; returns at once when the process has no io.
emitInspectionEvent(em, proc, event) ==
  IF HasIo(proc)
    THEN [em EXCEPT !.events = Append(@, event), !.local = @ \cup {proc}]
    ELSE em

\* emitJobEvent(job, event): nothing for a null job.
emitJobEvent(em, proc, job, event) ==
  IF job.status = "absent" THEN em ELSE emitInspectionEvent(em, proc, event)

\* emitSocketEvent of the bullmq worker: publish on socket:events; the
\* subscriber of every API process re-emits to its clients in the room.
emitSocketEvent(em, event) ==
  [events |-> Append(em.events, event), published |-> TRUE,
   local |-> em.local \cup ApiProcs]

\* The outcome of the last Job Store call: its name, the error it threw
\* ("" when it returned) and what was emitted.
Outcome(call, error, em) == [call |-> call, error |-> error, em |-> em]

NoCall == Outcome("", "", NoEmission)

\* if (!job) throw new ApiError(NOT_FOUND, 'Job not found'), else the emit
\* and the return.
Returned(call, doc, proc, event) ==
  IF doc.status = "absent"
    THEN Outcome(call, "NotFound", NoEmission)
    ELSE Outcome(call, "", emitJobEvent(NoEmission, proc, doc, event))

\* markJobQueued emits job.queued after the job.updated of updateJobProgress.
ReturnedQueued(doc, proc) ==
  IF doc.status = "absent"
    THEN Outcome("markJobQueued", "NotFound", NoEmission)
    ELSE Outcome("markJobQueued", "",
           emitJobEvent(emitJobEvent(NoEmission, proc, doc, "job.updated"),
                        proc, doc, "job.queued"))

(***************************************************************************)
(* Delivery to the clients.  A socket is one connection of a client to the *)
(* socket.io server of one API process (a reconnection is a new socket);   *)
(* room i is 'inspection:<i>'.  An emission is one call of                 *)
(* emitInspectionEvent or one message published on socket:events; the      *)
(* model follows one emission from its emitter to the clients.             *)
(***************************************************************************)
SocketIds == 1..MaxSockets
InspIds == {1, 2}

NoSocket == [state |-> "new", proc |-> "", rooms |-> {}]

\* emitted: the emissions so far, each with its room, its way ("local" or
\* "redis") and the sockets that were in the room when a socket server
\* emitted it; bus: the socket:events messages each subscriber has not
\* handled yet; packets: the event packets on their way to a socket;
\* received: the packets the clients got.
NoRelay ==
  [sockets |-> [c \in SocketIds |-> NoSocket], emitted |-> <<>>,
   bus |-> [p \in ApiProcs |-> <<>>], packets |-> EmptyBag, received |-> EmptyBag]

(***************************************************************************)
(* The inspection document of the bullmq handler: rooms with their photos. *)
(***************************************************************************)
PendingName == "_pending_classification"

\* A photo subdocument; condition "" is an absent field.
Photo(id) == [id |-> id, roomClassification |-> "", condition |-> "", pending |-> FALSE]

RoomDoc(name, displayOrder, conditionRating, photos) ==
  [name |-> name, displayOrder |-> displayOrder,
   conditionRating |-> conditionRating, photos |-> photos]

\* One run of processInspectionJob: the stored inspection (before: as the
\* run found it), the document in memory, the payload (photoIds,
\* aiClassificationMode), photosToProcess, the loop index and the
\* roomClassifications map in insertion order.
NoRun ==
  [pc |-> "none", before |-> <<>>, stored |-> <<>>, doc |-> <<>>, photoIds |-> {},
   ai |-> FALSE, toProcess |-> <<>>, i |-> 0, classes |-> <<>>]

(***************************************************************************)
(* Concurrent calls of publishInspectionJob at the Backpressure Gate: the  *)
(* position of every publisher (unused, idle, admitted: past the depth     *)
(* check and before the publish) and the jobs the workers hold.            *)
(***************************************************************************)
PublisherIds == 1..MaxPublishers

NoGate == [pub |-> [p \in PublisherIds |-> "unused"], active |-> 0]

\* One call of the amqp publishInspectionJob under a configured maxPending:
\* the messages in the queue, the position of the call, whether its depth
\* read succeeded, the messageCount it used (depth), the messageCount of
\* the queue at the read (at), and the status of its job.
NoAdmission == [maxPending |-> MaxPending, messageCount |-> 0, pc |-> "idle",
                readOk |-> TRUE, depth |-> 0, at |-> 0, status |-> "pending"]

(***************************************************************************)
(* The amqp adapter inside one process: the module state of lib/rabbitmq.js*)
(* (connection, channel) and of queues/inspection.queue.js (setupPromise), *)
(* the setups started by ensureQueue and the calls of publishInspectionJob *)
(* and consumeInspectionJobs that await them.  Connections and channels    *)
(* are numbered in the order of their creation; 0 is null.                 *)
(***************************************************************************)
CallerIds == 1..MaxCallers

IdleCaller == [op |-> "", pc |-> "idle", promise |-> 0, got |-> 0,
               afterClose |-> FALSE, result |-> ""]

NoAdapter ==
  [setupPromise |-> 0, promises |-> <<>>, connection |-> 0, channel |-> 0,
   conns |-> 0, chans |-> 0, consumer |-> 0,
   callers |-> [c \in CallerIds |-> IdleCaller]]

\* lib/rabbitmq.js called directly: the module's connection and channel,
\* the connections and channels created so far, and for every caller of
\* initRabbitMQ or publishMessage the await it is suspended at, the
\* connection createConnection returned to it and the channel it uses.
DirectCaller == [op |-> "", pc |-> "idle", conn |-> 0, got |-> 0, result |-> ""]

NoRabbit ==
  [connection |-> 0, channel |-> 0, conns |-> 0, chans |-> 0,
   callers |-> [c \in CallerIds |-> DirectCaller]]

\* The promise of one setup: the position of its async body, the
\* connection it obtained and the channel it resolves with.
NewSetup == [state |-> "connect", conn |-> 0, channel |-> 0]

Running(pr) == pr.state \in {"connect", "channel", "assert"}

\* A connection or channel that was created and is no longer the module's
\* current one has been closed.
Closed(current, id) == id # 0 /\ id # current

\* Number of connections closed so far.
Closes(m) == m.conns - (IF m.connection # 0 THEN 1 ELSE 0)

\* The catch handler leaving setupPromise in place.
RejectSetupKeep(m, p) ==
  [m EXCEPT !.promises[p] = [NewSetup EXCEPT !.state = "rejected"]]

\* The catch handler of the setup: setupPromise = null, and the error is
\* rethrown to every caller that awaits the promise.
RejectSetup(m, p) ==
  [m EXCEPT !.promises[p] = [NewSetup EXCEPT !.state = "rejected"],
            !.setupPromise = 0]

\* The synchronous part of ensureQueue: create the promise when there is
\* none, return the stored one.
ensureQueue(m) ==
  IF m.setupPromise = 0
    THEN [m EXCEPT !.promises = Append(@, NewSetup),
                   !.setupPromise = Len(m.promises) + 1]
    ELSE m

\* The continuation of a caller whose awaited promise has settled.  A
\* rejection is thrown to the caller.  publishInspectionJob goes on with
\* getChannel(), which throws when the module's channel is null;
\* consumeInspectionJobs registers its consumer on the channel the promise
\* resolved with, which throws when that channel is closed.
Continued(m, c) ==
  LET cl == m.callers[c]
      pr == m.promises[cl.promise]
      done == [cl EXCEPT !.pc = "done", !.promise = 0]
  IN IF pr.state = "rejected" THEN [done EXCEPT !.result = "setup failed"]
     ELSE IF cl.op = "publish"
       THEN [done EXCEPT !.got = pr.channel,
                         !.result = IF m.channel = 0
                                      THEN "channel has not been initialised"
                                      ELSE "ok"]
       ELSE [done EXCEPT !.got = pr.channel,
                         !.result = IF Closed(m.channel, pr.channel)
                                      THEN "channel closed" ELSE "ok"]

\* Promise p has settled: the continuations of all callers that await it
\* run before the process handles its next event.
Settle(m, p) ==
  LET waiting == {c \in CallerIds : m.callers[c].pc = "await" /\ m.callers[c].promise = p}
      after == [c \in CallerIds |-> IF c \in waiting THEN Continued(m, c) ELSE m.callers[c]]
  IN [m EXCEPT !.callers = after,
               !.consumer = IF \E c \in waiting : after[c].op = "consume" /\ after[c].result = "ok"
                              THEN m.promises[p].channel ELSE @]

\* publishInspectionJob / consumeInspectionJobs up to their await of
\* ensureQueue(), and on from it when the stored promise is settled already.
CallEnsureQueue(c) ==
  /\ mq.callers[c].pc = "idle"
  /\ \A k \in CallerIds : k < c => mq.callers[k].pc # "idle"
  /\ \E op \in {"publish", "consume"} :
       LET m == ensureQueue(mq)
           called == [m EXCEPT !.callers[c] =
                        [IdleCaller EXCEPT !.op = op, !.pc = "await",
                                           !.promise = m.setupPromise,
                                           !.afterClose = (Closes(mq) > 0)]]
       IN mq' = IF Running(m.promises[m.setupPromise])
                  THEN called ELSE Settle(called, m.setupPromise)
  /\ UNCHANGED <<rabbit, adm, gate, rm, relay, backend, jobs, msgs, req, wk, backlog, faults, storeFaults, calls, last>>

\* initRabbitMQ and createConnection inside the setup: the existing channel
\* or connection is reused, otherwise amqplib.connect, which may fail.
SetupConnect(p) ==
  /\ mq.promises[p].state = "connect"
  /\ IF mq.channel # 0
       THEN /\ mq' = [mq EXCEPT !.promises[p].state = "assert",
                                !.promises[p].channel = mq.channel]
            /\ faults' = faults
       ELSE IF mq.connection # 0
         THEN /\ mq' = [mq EXCEPT !.promises[p].state = "channel",
                                  !.promises[p].conn = mq.connection]
              /\ faults' = faults
         ELSE \/ /\ mq' = [mq EXCEPT !.connection = mq.conns + 1,
                                     !.conns = @ + 1,
                                     !.promises[p].state = "channel",
                                     !.promises[p].conn = mq.conns + 1]
                 /\ faults' = faults
              \/ /\ faults < MaxFaults
                 /\ faults' = faults + 1
                 /\ mq' = Settle(RejectSetup(mq, p), p)
  /\ UNCHANGED <<rabbit, adm, gate, rm, relay, backend, jobs, msgs, req, wk, backlog, storeFaults, calls, last>>

\* channel = await conn.createChannel(); it throws on a closed connection.
SetupChannel(p) ==
  /\ mq.promises[p].state = "channel"
  /\ mq' = IF Closed(mq.connection, mq.promises[p].conn)
             THEN Settle(RejectSetup(mq, p), p)
             ELSE [mq EXCEPT !.channel = mq.chans + 1, !.chans = @ + 1,
                             !.promises[p].state = "assert",
                             !.promises[p].channel = mq.chans + 1]
  /\ UNCHANGED <<rabbit, adm, gate, rm, relay, backend, jobs, msgs, req, wk, backlog, faults, storeFaults, calls, last>>

\* assertExchange, assertQueue, bindQueue on the channel, then return it.
SetupAssert(p) ==
  /\ mq.promises[p].state = "assert"
  /\ IF Closed(mq.channel, mq.promises[p].channel)
       THEN /\ mq' = Settle(RejectSetup(mq, p), p)
            /\ faults' = faults
       ELSE \/ /\ mq' = Settle([mq EXCEPT !.promises[p].state = "resolved"], p)
               /\ faults' = faults
            \/ /\ faults < MaxFaults
               /\ faults' = faults + 1
               /\ mq' = Settle(RejectSetup(mq, p), p)
  /\ UNCHANGED <<rabbit, adm, gate, rm, relay, backend, jobs, msgs, req, wk, backlog, storeFaults, calls, last>>

\* connection.on('close'): connection = null; channel = null.  The channel
\* of the connection is closed with it.
ConnectionClose ==
  /\ mq.connection # 0
  /\ Closes(mq) < MaxCloses
  /\ mq' = [mq EXCEPT !.connection = 0, !.channel = 0]
  /\ UNCHANGED <<rabbit, adm, gate, rm, relay, backend, jobs, msgs, req, wk, backlog, faults, storeFaults, calls, last>>

\* The call has returned or thrown; its caller may call again later.
CallReturn(c) ==
  /\ mq.callers[c].pc = "done"
  /\ mq' = [mq EXCEPT !.callers[c] = IdleCaller]
  /\ UNCHANGED <<rabbit, adm, gate, rm, relay, backend, jobs, msgs, req, wk, backlog, faults, storeFaults, calls, last>>

InitAdapter ==
  /\ backend = "amqp"
  /\ jobs = [j \in JobIds |-> NoJob]
  /\ msgs = <<>>
  /\ req = <<>>
  /\ wk = <<>>
  /\ backlog = 0
  /\ faults = 0
  /\ storeFaults = 0
  /\ calls = 0
  /\ last = NoCall
  /\ mq = NoAdapter
  /\ rabbit = NoRabbit
  /\ adm = NoAdmission
  /\ gate = NoGate
  /\ rm = NoRun
  /\ relay = NoRelay

NextAdapter ==
  \/ \E c \in CallerIds : CallEnsureQueue(c)
  \/ \E p \in 1..Len(mq.promises) : SetupConnect(p)
  \/ \E p \in 1..Len(mq.promises) : SetupChannel(p)
  \/ \E p \in 1..Len(mq.promises) : SetupAssert(p)
  \/ ConnectionClose
  \/ \E c \in CallerIds : CallReturn(c)

SpecAdapter == InitAdapter /\ [][NextAdapter]_vars

(***************************************************************************)
(* Direct calls of the Job Store, with arbitrary arguments, in an API      *)
(* process.  markJobCompleted is two writes and a read; other calls may    *)
(* run between them.                                                       *)
(***************************************************************************)
ProgressInputs == {-7, 42, 250}
StatusInputs == {"", "processing", "cancelled"}
MessageInputs == {"", "note"}

\* The documents of the store; the direct calls address the first one.
StoreDocs == {1, 2}
StoreJobIds == {1}

Callers == {ApiServer}

Exists(j) == jobs[j].status # "absent"
Room(j) == Len(jobs[j].events) < MaxEvents + 1

StoreCreate(j) ==
  /\ ~Exists(j)
  /\ \E proc \in Callers :
       /\ jobs' = [jobs EXCEPT ![j] = createJob(0, 0, FALSE)]
       /\ last' = Returned("createJob", jobs'[j], proc, "job.created")
  /\ UNCHANGED <<rabbit, adm, gate, rm, relay, backend, msgs, req, wk, backlog, faults, storeFaults, calls, mq>>

StoreUpdateProgress(j) ==
  /\ \E hp \in BOOLEAN, p \in ProgressInputs, st \in StatusInputs,
        m \in MessageInputs, proc \in Callers :
       /\ (hp \/ p = 42)
       /\ (m = "" \/ Room(j))
       /\ (st = "cancelled" => jobs[j].completedAt <= MaxEvents)
       /\ jobs' = [jobs EXCEPT ![j] =
                     updateJobProgress(@, Upd(NoUnits, NoUnits, hp, p, st, m))]
       /\ last' = Returned("updateJobProgress", jobs'[j], proc, "job.updated")
  /\ UNCHANGED <<rabbit, adm, gate, rm, relay, backend, msgs, req, wk, backlog, faults, storeFaults, calls, mq>>

StoreAppendEvent(j) ==
  /\ Room(j)
  /\ \E p \in ProgressInputs, proc \in Callers :
       /\ jobs' = [jobs EXCEPT ![j] = appendJobEvent(@, "job.note", "note", TRUE, p)]
       /\ last' = Returned("appendJobEvent", jobs'[j], proc, "job.updated")
  /\ UNCHANGED <<rabbit, adm, gate, rm, relay, backend, msgs, req, wk, backlog, faults, storeFaults, calls, mq>>

\* markJobCompleted up to its first write; NotFound ends the call.
StoreMarkCompleted(j) ==
  /\ Room(j)
  /\ calls < MaxCalls
  /\ \E proc \in Callers :
       /\ jobs' = [jobs EXCEPT ![j] = markJobCompletedUpdate(@, "")]
       /\ last' = Returned("markJobCompleted", jobs'[j], proc, "job.updated")
       /\ calls' = IF last'.error = "" THEN calls + 1 ELSE calls
  /\ UNCHANGED <<rabbit, adm, gate, rm, relay, backend, msgs, req, wk, backlog, faults, storeFaults, mq>>

\* markJobCompleted from its second write: $set result, findById, emit.
StoreMarkCompletedResult(j) ==
  /\ calls > 0
  /\ \E proc \in Callers :
       /\ jobs' = [jobs EXCEPT ![j] = markJobCompletedResult(@, "result")]
       /\ last' = Outcome("markJobCompleted", "",
                          emitJobEvent(NoEmission, proc, jobs'[j], "job.completed"))
  /\ calls' = calls - 1
  /\ UNCHANGED <<rabbit, adm, gate, rm, relay, backend, msgs, req, wk, backlog, faults, storeFaults, mq>>

StoreMarkFailed(j) ==
  /\ Room(j)
  /\ \E proc \in Callers :
       /\ jobs' = [jobs EXCEPT ![j] = markJobFailed(@, "error")]
       /\ last' = Returned("markJobFailed", jobs'[j], proc, "job.failed")
  /\ UNCHANGED <<rabbit, adm, gate, rm, relay, backend, msgs, req, wk, backlog, faults, storeFaults, calls, mq>>

StoreMarkQueued(j) ==
  /\ Room(j)
  /\ \E proc \in Callers :
       /\ jobs' = [jobs EXCEPT ![j] = markJobQueued(@)]
       /\ last' = ReturnedQueued(jobs'[j], proc)
  /\ UNCHANGED <<rabbit, adm, gate, rm, relay, backend, msgs, req, wk, backlog, faults, storeFaults, calls, mq>>

InitStore ==
  /\ backend = "none"
  /\ jobs = [j \in StoreDocs |-> NoJob]
  /\ msgs = <<>>
  /\ req = <<>>
  /\ wk = <<>>
  /\ backlog = 0
  /\ faults = 0
  /\ storeFaults = 0
  /\ calls = 0
  /\ last = NoCall
  /\ mq = NoAdapter
  /\ rabbit = NoRabbit
  /\ adm = NoAdmission
  /\ gate = NoGate
  /\ rm = NoRun
  /\ relay = NoRelay

NextStore ==
  \/ \E j \in StoreDocs : StoreCreate(j)
  \/ \E j \in StoreJobIds :
       \/ StoreUpdateProgress(j)
       \/ StoreAppendEvent(j)
       \/ StoreMarkCompleted(j)
       \/ StoreMarkCompletedResult(j)
       \/ StoreMarkFailed(j)
       \/ StoreMarkQueued(j)

SpecStore == InitStore /\ [][NextStore]_vars

(***************************************************************************)
(* Broker: the durable queue of job messages.  A message is waiting,      *)
(* active (delivered, not settled), delayed (BullMQ backoff before a      *)
(* retry), completed (acked) or failed (nacked without requeue, or out of *)
(* attempts).                                                              *)
(***************************************************************************)
Message(j) ==
  [job |-> j, key |-> <<>>, parsable |-> TRUE, state |-> "waiting",
   attemptsMade |-> 0, deliveries |-> 0, acks |-> 0, nacks |-> 0,
   requeues |-> 0, runs |-> 0]

\* The job id option of the bullmq publish: `inspection-${jobId}`.
bullJobId(j) == <<"inspection", j>>

\* queue.add without the jobId option: BullMQ numbers every job anew.
queueAddNoKey(q, j) ==
  Append(q, [Message(j) EXCEPT !.key = <<"generated", Len(q) + 1>>])

\* queue.add(name, data, {jobId}): BullMQ adds nothing when the queue
\* holds a job with that id, in whatever state, and returns that job.
queueAdd(q, j) ==
  IF \E m \in 1..Len(q) : q[m].key = bullJobId(j)
    THEN q
    ELSE Append(q, [Message(j) EXCEPT !.key = bullJobId(j)])

\* A message of the amqp queue whose content is not JSON (left there by
\* another producer); it names no job.
PoisonMessage == [Message(0) EXCEPT !.parsable = FALSE]

MsgIds == 1..Len(msgs)

CountState(st) == Cardinality({m \in MsgIds : msgs[m].state = st})

\* checkQueue(QUEUE).messageCount: the messages ready for delivery.
checkQueueDepth == backlog + CountState("waiting")

\* getQueueStats(...).total: waiting + active + delayed.
getQueueStats ==
  backlog + CountState("waiting") + CountState("active") + CountState("delayed")

\* The gate of queues/inspection.queue.js: maxPending && messageCount >= maxPending.
amqpSaturated(depth) == MaxPending # 0 /\ depth >= MaxPending

\* The gate of queues/inspection.bullmq.js: total >= (maxPending || 500).
bullSaturated(depth) == depth >= (IF MaxPending # 0 THEN MaxPending ELSE DefaultMaxPending)

(***************************************************************************)
(* Enqueue entry points.  Request r creates job r and publishes it.        *)
(*   amqp:   createJob, uploadPhotos                                       *)
(*   bullmq: createJob, registerPhotos, uploadPhotos                       *)
(***************************************************************************)
EntryPoints(b) ==
  IF b = "amqp" THEN {"createJob", "uploadPhotos"}
  ELSE {"createJob", "registerPhotos", "uploadPhotos"}

BusyMessage == "Inspection queue is busy, please retry later"

NoRequest ==
  [ep |-> "", pc |-> "new", saturated |-> FALSE, rejected |-> FALSE, outcome |-> "",
   adds |-> 0, cancels |-> 0]

\* The response is sent: the locals of the request are gone, what it
\* observed at the gate and what it answered remain.
Respond(rq, outcome) == [rq EXCEPT !.ep = "", !.pc = "done", !.outcome = outcome]

\* The controller creates the job document (jobService.createJob).
ApiCreateJob(r) ==
  /\ req[r].pc = "new"
  /\ \A k \in JobIds : k < r => req[k].pc # "new"
  /\ \E ep \in EntryPoints(backend), n \in 0..MaxPhotos, ai \in BOOLEAN :
       /\ (backend = "amqp" => ~ai /\ n >= 1)
       /\ jobs' = [jobs EXCEPT ![r] = createJob(n, n, ai)]
       /\ req' = [req EXCEPT ![r].ep = ep,
                             ![r].pc = IF backend = "bullmq" /\ ep # "createJob"
                                         THEN "markQueued" ELSE "gate"]
  /\ last' = Returned("createJob", jobs'[r], ApiServer, "job.created")
  /\ UNCHANGED <<rabbit, adm, gate, rm, relay, backend, msgs, wk, backlog, faults, storeFaults, calls, mq>>

\* jobService.markJobQueued: inside publishInspectionJob after the gate on
\* amqp, in the photo controllers before publishInspectionJob on bullmq.
ApiMarkQueued(r) ==
  /\ req[r].pc = "markQueued"
  /\ jobs' = [jobs EXCEPT ![r] = markJobQueued(@)]
  /\ req' = [req EXCEPT ![r].pc = IF backend = "amqp" THEN "publish" ELSE "gate"]
  /\ last' = ReturnedQueued(jobs'[r], ApiServer)
  /\ UNCHANGED <<rabbit, adm, gate, rm, relay, backend, msgs, wk, backlog, faults, storeFaults, calls, mq>>

\* The depth check of publishInspectionJob.  On amqp a failed depth read
\* counts as depth 0.  A rejection leaves createJob with the 503 and sends
\* the photo controllers to their catch block.
ApiGate(r) ==
  /\ req[r].pc = "gate"
  /\ \E readOk \in BOOLEAN :
       LET real == IF backend = "amqp" THEN checkQueueDepth ELSE getQueueStats
           depth == IF backend = "amqp" /\ ~readOk THEN 0 ELSE real
           reject == IF backend = "amqp" THEN amqpSaturated(depth)
                                         ELSE bullSaturated(depth)
           seen == [req[r] EXCEPT !.saturated = (depth >= MaxPending),
                                  !.rejected = reject]
       IN /\ (backend = "bullmq" => readOk)
          /\ req' = [req EXCEPT ![r] =
               IF reject
                 THEN (IF req[r].ep = "createJob" THEN Respond(seen, "503")
                       ELSE [seen EXCEPT !.pc = "catch"])
                 ELSE [seen EXCEPT !.pc = IF backend = "amqp" THEN "markQueued"
                                          ELSE "publish"]]
  /\ UNCHANGED <<rabbit, adm, gate, rm, relay, backend, jobs, msgs, wk, backlog, faults, storeFaults, calls, last, mq>>

\* channel.publish / queue.add: the message enters the durable queue.
ApiPublish(r) ==
  /\ req[r].pc = "publish"
  /\ msgs' = IF backend = "bullmq" THEN queueAdd(msgs, r) ELSE Append(msgs, Message(r))
  /\ req' = [req EXCEPT ![r] = Respond([@ EXCEPT !.adds = @ + 1], "201")]
  /\ UNCHANGED <<rabbit, adm, gate, rm, relay, backend, jobs, wk, backlog, faults, storeFaults, calls, last, mq>>

\* The catch block of the photo controllers: markJobFailed, then the error
\* is rethrown (uploadPhotos) or swallowed (registerPhotos).
ApiCatch(r) ==
  /\ req[r].pc = "catch"
  /\ jobs' = [jobs EXCEPT ![r] = markJobFailed(@, BusyMessage)]
  /\ req' = [req EXCEPT ![r] =
               Respond(@, IF req[r].ep = "registerPhotos" THEN "201" ELSE "503")]
  /\ last' = Returned("markJobFailed", jobs'[r], ApiServer, "job.failed")
  /\ UNCHANGED <<rabbit, adm, gate, rm, relay, backend, msgs, wk, backlog, faults, storeFaults, calls, mq>>

(***************************************************************************)
(* Worker runtime.  A slot is one handler execution of a worker process:   *)
(* at most Prefetch per process on amqp (channel.prefetch), at most        *)
(* Concurrency on bullmq (Worker concurrency).                             *)
(***************************************************************************)
SlotMax == Max(Prefetch, Concurrency)
Slots == Procs \X (1..SlotMax)

IdleSlot == [pc |-> "idle", msg |-> 0, i |-> 0, err |-> ""]

PerProc == IF backend = "amqp" THEN Prefetch ELSE Concurrency

Busy(p) == {k \in 1..SlotMax : wk[<<p, k>>].pc # "idle"}

\* The slot a new delivery to process p runs in (slots of one process are
\* interchangeable: the lowest idle one).
FreeSlot(p) == CHOOSE k \in 1..SlotMax : k \notin Busy(p) /\ \A l \in 1..(k-1) : l \in Busy(p)

JobOf(s) == msgs[wk[s].msg].job

\* The bullmq handler follows its Job Store calls with emitSocketEvent; the
\* amqp handler emits nothing of its own.
HandlerEmit(out, event) ==
  IF backend = "bullmq" THEN [out EXCEPT !.em = emitSocketEvent(@, event)] ELSE out

\* Math.round(x) for x = num/den >= 0.
Round(num, den) == (2 * num + den) \div (2 * den)

\* totalUnits of the amqp handler: payload.totalUnits || images.length || 1.
amqpTotalUnits(job) == IF job.units # 0 THEN job.units ELSE 1

\* Progress after unit i (0-based) of total.
amqpProgress(i, total) == Min(95, Round((i + 1) * 90, total) + 5)
\* bullProgress counting the photos that remain instead of those done.
bullProgressRemaining(i, total) == Round((total - i) * 80, total) + 10

bullProgress(i, total) == Round((i + 1) * 80, total) + 10

TotalOf(job) == IF backend = "amqp" THEN amqpTotalUnits(job) ELSE job.units

\* Deliver with the message left in the waiting list while it is handled.
DeliverLeftWaiting(p, m) ==
  /\ msgs[m].state = "waiting"
  /\ msgs[m].parsable
  /\ Cardinality(Busy(p)) < PerProc
  /\ msgs' = [msgs EXCEPT ![m].deliveries = @ + 1, ![m].runs = @ + 1]
  /\ wk' = [wk EXCEPT ![<<p, FreeSlot(p)>>] = [IdleSlot EXCEPT !.pc = "start", !.msg = m]]
  /\ UNCHANGED <<rabbit, adm, gate, rm, relay, backend, jobs, req, backlog, faults, storeFaults, calls, last, mq>>

\* The broker hands a waiting message to a process with a free slot and
\* keeps it out of the waiting list until it is settled.
Deliver(p, m) ==
  /\ msgs[m].state = "waiting"
  /\ msgs[m].parsable
  /\ Cardinality(Busy(p)) < PerProc
  /\ msgs' = [msgs EXCEPT ![m].state = "active", ![m].deliveries = @ + 1,
                          ![m].runs = @ + 1]
  /\ wk' = [wk EXCEPT ![<<p, FreeSlot(p)>>] = [IdleSlot EXCEPT !.pc = "start", !.msg = m]]
  /\ UNCHANGED <<rabbit, adm, gate, rm, relay, backend, jobs, req, backlog, faults, storeFaults, calls, last, mq>>

\* DeliverPoison rejecting the message back to the queue instead of
\* acking it.
DeliverPoisonRequeue(p, m) ==
  /\ backend = "amqp"
  /\ msgs[m].state = "waiting"
  /\ ~msgs[m].parsable
  /\ Cardinality(Busy(p)) < PerProc
  /\ msgs' = [msgs EXCEPT ![m].deliveries = @ + 1, ![m].nacks = @ + 1,
                          ![m].requeues = @ + 1]
  /\ UNCHANGED <<rabbit, adm, gate, rm, relay, backend, jobs, req, wk, backlog, faults, storeFaults, calls, last, mq>>

\* The amqp consumer callback on a message whose content does not parse:
\* channel.ack(msg) and return, before the handler is called.
DeliverPoison(p, m) ==
  /\ backend = "amqp"
  /\ msgs[m].state = "waiting"
  /\ ~msgs[m].parsable
  /\ Cardinality(Busy(p)) < PerProc
  /\ msgs' = [msgs EXCEPT ![m].deliveries = @ + 1, ![m].acks = @ + 1,
                          ![m].state = "completed"]
  /\ UNCHANGED <<rabbit, adm, gate, rm, relay, backend, jobs, req, wk, backlog, faults, storeFaults, calls, last, mq>>

\* updateJobProgress({status: 'processing', progress: 5, message}).
HandlerStart(s) ==
  /\ wk[s].pc = "start"
  /\ jobs' = [jobs EXCEPT ![JobOf(s)] =
                updateJobProgress(@, Upd(NoUnits, NoUnits, TRUE, 5, "processing", "started"))]
  /\ wk' = [wk EXCEPT ![s].pc = "lookup"]
  /\ last' = HandlerEmit(Returned("updateJobProgress", jobs'[JobOf(s)], WorkerProc, "job.updated"),
                       "job.processing")
  /\ UNCHANGED <<rabbit, adm, gate, rm, relay, backend, msgs, req, backlog, faults, storeFaults, calls, mq>>

\* HandlerLookup returning early, without markJobCompleted, when no photo
\* matches.
HandlerLookupEarlyReturn(s) ==
  /\ wk[s].pc = "lookup"
  /\ \/ /\ faults < MaxFaults
        /\ faults' = faults + 1
        /\ wk' = [wk EXCEPT ![s].pc = "catch", ![s].err = "Inspection not found"]
     \/ /\ faults' = faults
        /\ wk' = [wk EXCEPT ![s].pc = IF TotalOf(jobs[JobOf(s)]) = 0
                                        THEN "ack" ELSE "unit",
                            ![s].i = 0]
  /\ UNCHANGED <<rabbit, adm, gate, rm, relay, backend, jobs, msgs, req, backlog, storeFaults, calls, last, mq>>

\* Inspection.findOne (and the preset on amqp): a missing document throws.
\* The bullmq handler completes at once when no photo matches.
HandlerLookup(s) ==
  /\ wk[s].pc = "lookup"
  /\ \/ /\ faults < MaxFaults
        /\ faults' = faults + 1
        /\ wk' = [wk EXCEPT ![s].pc = "catch", ![s].err = "Inspection not found"]
     \/ /\ faults' = faults
        /\ wk' = [wk EXCEPT ![s].pc = IF TotalOf(jobs[JobOf(s)]) = 0
                                        THEN "complete" ELSE "unit",
                            ![s].i = 0]
  /\ UNCHANGED <<rabbit, adm, gate, rm, relay, backend, jobs, msgs, req, backlog, storeFaults, calls, last, mq>>

\* One pass of the loop: the progress write for unit i, then the work on
\* the unit, which may throw.
HandlerUnit(s) ==
  /\ wk[s].pc = "unit"
  /\ LET j == JobOf(s)
         total == TotalOf(jobs[j])
         i == wk[s].i
         progress == IF backend = "amqp" THEN amqpProgress(i, total)
                                         ELSE bullProgress(i, total)
     IN /\ jobs' = [jobs EXCEPT ![j] =
                      updateJobProgress(@, Upd(i + 1, total, TRUE, progress, "", "unit"))]
        /\ \/ /\ faults < MaxFaults
              /\ faults' = faults + 1
              /\ wk' = [wk EXCEPT ![s].pc = "catch", ![s].err = "unit failed"]
           \/ /\ faults' = faults
              /\ wk' = [wk EXCEPT
                   ![s].i = i + 1,
                   ![s].pc = IF i + 1 < total THEN "unit"
                             ELSE IF backend = "amqp" THEN "complete"
                             ELSE IF jobs[j].ai THEN "organize" ELSE "save"]
  /\ last' = HandlerEmit(Returned("updateJobProgress", jobs'[JobOf(s)], WorkerProc, "job.updated"),
                       "job.progress")
  /\ UNCHANGED <<rabbit, adm, gate, rm, relay, backend, msgs, req, backlog, storeFaults, calls, mq>>

\* bullmq, classification mode: updateJobProgress({progress: 90, message}).
HandlerOrganize(s) ==
  /\ wk[s].pc = "organize"
  /\ jobs' = [jobs EXCEPT ![JobOf(s)] =
                updateJobProgress(@, Upd(NoUnits, NoUnits, TRUE, 90, "", "organizing"))]
  /\ wk' = [wk EXCEPT ![s].pc = "save"]
  /\ last' = HandlerEmit(Returned("updateJobProgress", jobs'[JobOf(s)], WorkerProc, "job.updated"),
                       "job.progress")
  /\ UNCHANGED <<rabbit, adm, gate, rm, relay, backend, msgs, req, backlog, faults, storeFaults, calls, mq>>

\* bullmq: inspection.save(), which may throw.
HandlerSave(s) ==
  /\ wk[s].pc = "save"
  /\ \/ /\ faults < MaxFaults
        /\ faults' = faults + 1
        /\ wk' = [wk EXCEPT ![s].pc = "catch", ![s].err = "save failed"]
     \/ /\ faults' = faults
        /\ wk' = [wk EXCEPT ![s].pc = "complete"]
  /\ UNCHANGED <<rabbit, adm, gate, rm, relay, backend, jobs, msgs, req, backlog, storeFaults, calls, last, mq>>

\* HandlerComplete leaving a cancelled job as it is.
HandlerCompleteUnlessCancelled(s) ==
  /\ wk[s].pc = "complete"
  /\ IF jobs[JobOf(s)].status = "cancelled"
       THEN /\ jobs' = jobs
            /\ last' = last
            /\ wk' = [wk EXCEPT ![s].pc = "ack"]
       ELSE /\ jobs' = [jobs EXCEPT ![JobOf(s)] = markJobCompletedUpdate(@, "completed")]
            /\ wk' = [wk EXCEPT ![s].pc = "result"]
            /\ last' = Returned("markJobCompleted", jobs'[JobOf(s)], WorkerProc, "job.updated")
  /\ UNCHANGED <<rabbit, adm, gate, rm, relay, backend, msgs, req, backlog, faults, storeFaults, calls, mq>>

\* markJobCompleted, first write: status completed, progress 100, entry.
HandlerComplete(s) ==
  /\ wk[s].pc = "complete"
  /\ jobs' = [jobs EXCEPT ![JobOf(s)] = markJobCompletedUpdate(@, "completed")]
  /\ wk' = [wk EXCEPT ![s].pc = "result"]
  /\ last' = Returned("markJobCompleted", jobs'[JobOf(s)], WorkerProc, "job.updated")
  /\ UNCHANGED <<rabbit, adm, gate, rm, relay, backend, msgs, req, backlog, faults, storeFaults, calls, mq>>

\* markJobCompleted, second write: the result; the handler then acks
\* (amqp) or returns (bullmq).
HandlerResult(s) ==
  /\ wk[s].pc = "result"
  /\ jobs' = [jobs EXCEPT ![JobOf(s)] = markJobCompletedResult(@, "result")]
  /\ wk' = [wk EXCEPT ![s].pc = "ack"]
  /\ LET out == Outcome("markJobCompleted", "",
                        emitJobEvent(NoEmission, WorkerProc, jobs'[JobOf(s)], "job.completed"))
     IN last' = IF TotalOf(jobs[JobOf(s)]) = 0 THEN out
                ELSE HandlerEmit(out, "job.completed")
  /\ UNCHANGED <<rabbit, adm, gate, rm, relay, backend, msgs, req, backlog, faults, storeFaults, calls, mq>>

\* The catch block of the handler: markJobFailed, then nack (amqp) or
\* rethrow (bullmq).  When markJobFailed itself throws, the amqp consumer
\* callback catches, the bullmq handler rejects.
HandlerCatch(s) ==
  /\ wk[s].pc = "catch"
  /\ \/ /\ jobs' = [jobs EXCEPT ![JobOf(s)] = markJobFailed(@, wk[s].err)]
        /\ storeFaults' = storeFaults
        /\ last' = HandlerEmit(Returned("markJobFailed", jobs'[JobOf(s)], WorkerProc, "job.failed"),
                               "job.failed")
        /\ wk' = [wk EXCEPT ![s].pc = "nack"]
     \/ /\ storeFaults < MaxStoreFaults
        /\ storeFaults' = storeFaults + 1
        /\ jobs' = jobs
        /\ last' = Outcome("markJobFailed", "StoreError", NoEmission)
        /\ wk' = [wk EXCEPT ![s].pc = IF backend = "amqp" THEN "outer" ELSE "nack"]
  /\ UNCHANGED <<rabbit, adm, gate, rm, relay, backend, msgs, req, backlog, faults, calls, mq>>

\* amqp consumer callback, catch: try markJobFailed (errors logged), then
\* nack({requeue: false}).
ConsumerCatch(s) ==
  /\ backend = "amqp"
  /\ wk[s].pc = "outer"
  /\ \/ /\ jobs' = [jobs EXCEPT ![JobOf(s)] = markJobFailed(@, wk[s].err)]
        /\ storeFaults' = storeFaults
        /\ last' = Returned("markJobFailed", jobs'[JobOf(s)], WorkerProc, "job.failed")
     \/ /\ storeFaults < MaxStoreFaults
        /\ storeFaults' = storeFaults + 1
        /\ jobs' = jobs
        /\ last' = Outcome("markJobFailed", "StoreError", NoEmission)
  /\ msgs' = [msgs EXCEPT ![wk[s].msg].nacks = @ + 1, ![wk[s].msg].state = "failed"]
  /\ wk' = [wk EXCEPT ![s] = IdleSlot]
  /\ UNCHANGED <<rabbit, adm, gate, rm, relay, backend, req, backlog, faults, calls, mq>>

\* ack() of the amqp handler / the bullmq processor returns: the message is
\* completed.
Ack(s) ==
  /\ wk[s].pc = "ack"
  /\ msgs' = [msgs EXCEPT ![wk[s].msg].acks = @ + 1, ![wk[s].msg].state = "completed"]
  /\ wk' = [wk EXCEPT ![s] = IdleSlot]
  /\ UNCHANGED <<rabbit, adm, gate, rm, relay, backend, jobs, req, backlog, faults, storeFaults, calls, last, mq>>

\* State of a bullmq job whose processor threw: retried after a backoff
\* while attempts remain (defaultJobOptions.attempts), failed otherwise.
bullAfterThrow(attemptsMade) == IF attemptsMade < Attempts THEN "delayed" ELSE "failed"

\* The catch block ending without nack or rethrow: the callback returns
\* and the message is left unsettled.
NackForgotten(s) ==
  /\ wk[s].pc = "nack"
  /\ wk' = [wk EXCEPT ![s] = IdleSlot]
  /\ UNCHANGED <<rabbit, adm, gate, rm, relay, backend, jobs, msgs, req, backlog, faults, storeFaults, calls, last, mq>>

\* Nack with requeue left true on amqp: the message returns to the queue.
NackRequeue(s) ==
  /\ wk[s].pc = "nack"
  /\ LET m == wk[s].msg
     IN msgs' = [msgs EXCEPT
          ![m].nacks = @ + 1,
          ![m].attemptsMade = @ + 1,
          ![m].requeues = IF backend = "amqp" THEN @ + 1 ELSE @,
          ![m].state = IF backend = "amqp" THEN "waiting"
                       ELSE bullAfterThrow(msgs[m].attemptsMade + 1)]
  /\ wk' = [wk EXCEPT ![s] = IdleSlot]
  /\ UNCHANGED <<rabbit, adm, gate, rm, relay, backend, jobs, req, backlog, faults, storeFaults, calls, last, mq>>

\* nack({requeue: false}) of the amqp handler / the bullmq processor throws.
Nack(s) ==
  /\ wk[s].pc = "nack"
  /\ LET m == wk[s].msg
     IN msgs' = [msgs EXCEPT
          ![m].nacks = @ + 1,
          ![m].attemptsMade = @ + 1,
          ![m].state = IF backend = "amqp" THEN "failed"
                       ELSE bullAfterThrow(msgs[m].attemptsMade + 1)]
  /\ wk' = [wk EXCEPT ![s] = IdleSlot]
  /\ UNCHANGED <<rabbit, adm, gate, rm, relay, backend, jobs, req, backlog, faults, storeFaults, calls, last, mq>>

\* bullmq: the backoff delay of a retried job has elapsed.
Promote(m) ==
  /\ msgs[m].state = "delayed"
  /\ msgs' = [msgs EXCEPT ![m].state = "waiting"]
  /\ UNCHANGED <<rabbit, adm, gate, rm, relay, backend, jobs, req, wk, backlog, faults, storeFaults, calls, last, mq>>

Init ==
  /\ backend \in {"amqp", "bullmq"}
  /\ jobs = [j \in JobIds |-> NoJob]
  /\ msgs \in {<<>>, <<PoisonMessage>>}
  /\ (backend = "bullmq" => msgs = <<>>)
  /\ req = [r \in JobIds |-> NoRequest]
  /\ wk = [s \in Slots |-> IdleSlot]
  /\ backlog \in {0, MaxPending - 1, MaxPending}
  /\ faults = 0
  /\ storeFaults = 0
  /\ calls = 0
  /\ last = NoCall
  /\ mq = NoAdapter
  /\ rabbit = NoRabbit
  /\ adm = NoAdmission
  /\ gate = NoGate
  /\ rm = NoRun
  /\ relay = NoRelay

Next ==
  \/ \E r \in JobIds : ApiCreateJob(r)
  \/ \E r \in JobIds : ApiMarkQueued(r)
  \/ \E r \in JobIds : ApiGate(r)
  \/ \E r \in JobIds : ApiPublish(r)
  \/ \E r \in JobIds : ApiCatch(r)
  \/ \E p \in Procs : \E m \in MsgIds : Deliver(p, m)
  \/ \E p \in Procs : \E m \in MsgIds : DeliverPoison(p, m)
  \/ \E s \in Slots : HandlerStart(s)
  \/ \E s \in Slots : HandlerLookup(s)
  \/ \E s \in Slots : HandlerUnit(s)
  \/ \E s \in Slots : HandlerOrganize(s)
  \/ \E s \in Slots : HandlerSave(s)
  \/ \E s \in Slots : HandlerComplete(s)
  \/ \E s \in Slots : HandlerResult(s)
  \/ \E s \in Slots : HandlerCatch(s)
  \/ \E s \in Slots : ConsumerCatch(s)
  \/ \E s \in Slots : Ack(s)
  \/ \E s \in Slots : Nack(s)
  \/ \E m \in MsgIds : Promote(m)

Spec == Init /\ [][Next]_vars

\* The steps of the handler execution in slot s.
HandlerStep(s) ==
  \/ HandlerStart(s)
  \/ HandlerLookup(s)
  \/ HandlerUnit(s)
  \/ HandlerOrganize(s)
  \/ HandlerSave(s)
  \/ HandlerComplete(s)
  \/ HandlerResult(s)
  \/ HandlerCatch(s)
  \/ ConsumerCatch(s)
  \/ Ack(s)
  \/ Nack(s)

\* Scheduling: the event loop of a worker process runs every handler
\* execution on, the broker delivers a waiting message to a consumer with
\* a free slot, and the backoff delay of a retried job elapses.
Fairness ==
  /\ \A s \in Slots : WF_vars(HandlerStep(s))
  /\ \A m \in {1, 2} : WF_vars(\E p \in Procs : m \in MsgIds /\ Deliver(p, m))
  /\ \A m \in {1, 2} : WF_vars(\E p \in Procs : m \in MsgIds /\ DeliverPoison(p, m))
  /\ \A m \in {1, 2} : WF_vars(m \in MsgIds /\ Promote(m))

SpecFair == Spec /\ Fairness

(***************************************************************************)
(* The Backpressure Gate under concurrent publishers.  backlog is the      *)
(* number of messages waiting in the queue.                                *)
(***************************************************************************)
\* The depth the gate of the backend compares with maxPending.
GateDepth == IF backend = "amqp" THEN backlog ELSE backlog + gate.active

\* publishInspectionJob up to the gate: the depth read (on amqp a failed
\* read counts as 0) and the comparison; a rejected call throws and the
\* publisher may call again.
GateCheck(p) ==
  /\ gate.pub[p] \in {"unused", "idle"}
  /\ \A k \in PublisherIds : k < p => gate.pub[k] # "unused"
  /\ \E readOk \in BOOLEAN :
       LET depth == IF backend = "amqp" /\ ~readOk THEN 0 ELSE GateDepth
           reject == IF backend = "amqp" THEN amqpSaturated(depth)
                                         ELSE bullSaturated(depth)
       IN /\ (~readOk => backend = "amqp" /\ faults < MaxFaults)
          /\ faults' = IF readOk THEN faults ELSE faults + 1
          /\ gate' = [gate EXCEPT !.pub[p] = IF reject THEN "idle" ELSE "admitted"]
  /\ UNCHANGED <<rabbit, adm, rm, relay, backend, jobs, msgs, req, wk, backlog, storeFaults, calls, last, mq>>

\* channel.publish / queue.add of an admitted call.
GatePublish(p) ==
  /\ gate.pub[p] = "admitted"
  /\ backlog' = backlog + 1
  /\ gate' = [gate EXCEPT !.pub[p] = "idle"]
  /\ UNCHANGED <<rabbit, adm, rm, relay, backend, jobs, msgs, req, wk, faults, storeFaults, calls, last, mq>>

\* A worker takes a waiting message.
GateConsume ==
  /\ backlog > 0
  /\ gate.active < PerProc * MaxProcs
  /\ backlog' = backlog - 1
  /\ gate' = [gate EXCEPT !.active = @ + 1]
  /\ UNCHANGED <<rabbit, adm, rm, relay, backend, jobs, msgs, req, wk, faults, storeFaults, calls, last, mq>>

\* The worker settles the message it holds.
GateSettle ==
  /\ gate.active > 0
  /\ gate' = [gate EXCEPT !.active = @ - 1]
  /\ UNCHANGED <<rabbit, adm, rm, relay, backend, jobs, msgs, req, wk, backlog, faults, storeFaults, calls, last, mq>>

InitGate ==
  /\ backend \in {"amqp", "bullmq"}
  /\ jobs = [j \in JobIds |-> NoJob]
  /\ msgs = <<>>
  /\ req = [r \in JobIds |-> NoRequest]
  /\ wk = [s \in Slots |-> IdleSlot]
  /\ backlog \in {MaxPending - 1, MaxPending}
  /\ faults = 0
  /\ storeFaults = 0
  /\ calls = 0
  /\ last = NoCall
  /\ mq = NoAdapter
  /\ rabbit = NoRabbit
  /\ adm = NoAdmission
  /\ relay = NoRelay
  /\ rm = NoRun
  /\ gate = NoGate

NextGate ==
  \/ \E p \in PublisherIds : GateCheck(p)
  \/ \E p \in PublisherIds : GatePublish(p)
  \/ GateConsume
  \/ GateSettle

SpecGate == InitGate /\ [][NextGate]_vars

(***************************************************************************)
(* The amqp gate as a function of the configured maxPending and of the     *)
(* outcome of the depth read.                                              *)
(***************************************************************************)
\* The test of a gate that ignores a zero maxPending.
amqpRejectsAlways(maxPending, messageCount) == messageCount >= maxPending

\* config.queues.inspection.maxPending && stats.messageCount >= maxPending
amqpRejects(maxPending, messageCount) ==
  maxPending # 0 /\ messageCount >= maxPending

\* checkQueueDepth().catch(...) and the comparison.
AdmitCheck ==
  /\ adm.pc = "idle"
  /\ \E readOk \in BOOLEAN :
       LET stats == IF readOk THEN adm.messageCount ELSE 0
       IN adm' = [adm EXCEPT !.readOk = readOk, !.depth = stats,
                             !.at = adm.messageCount,
                             !.pc = IF amqpRejects(adm.maxPending, stats)
                                      THEN "rejected" ELSE "markQueued"]
  /\ UNCHANGED <<rabbit, gate, rm, relay, backend, jobs, msgs, req, wk, backlog, faults, storeFaults, calls, last, mq>>

\* jobService.markJobQueued({jobId, queueDepth: stats.messageCount}).
AdmitMarkQueued ==
  /\ adm.pc = "markQueued"
  /\ adm' = [adm EXCEPT !.status = "queued", !.pc = "publish"]
  /\ UNCHANGED <<rabbit, gate, rm, relay, backend, jobs, msgs, req, wk, backlog, faults, storeFaults, calls, last, mq>>

\* channel.publish.
AdmitPublish ==
  /\ adm.pc = "publish"
  /\ adm.messageCount < MaxDepth
  /\ adm' = [adm EXCEPT !.messageCount = @ + 1, !.pc = "published"]
  /\ UNCHANGED <<rabbit, gate, rm, relay, backend, jobs, msgs, req, wk, backlog, faults, storeFaults, calls, last, mq>>

\* The call has returned or thrown; the next call is for a new job.
AdmitNext ==
  /\ adm.pc \in {"rejected", "published"}
  /\ adm' = [adm EXCEPT !.pc = "idle", !.status = "pending"]
  /\ UNCHANGED <<rabbit, gate, rm, relay, backend, jobs, msgs, req, wk, backlog, faults, storeFaults, calls, last, mq>>

\* A consumer takes a message from the queue.
AdmitConsume ==
  /\ adm.messageCount > 0
  /\ adm' = [adm EXCEPT !.messageCount = @ - 1]
  /\ UNCHANGED <<rabbit, gate, rm, relay, backend, jobs, msgs, req, wk, backlog, faults, storeFaults, calls, last, mq>>

InitAdmit ==
  /\ backend = "amqp"
  /\ jobs = [j \in JobIds |-> NoJob]
  /\ msgs = <<>>
  /\ req = [r \in JobIds |-> NoRequest]
  /\ wk = [s \in Slots |-> IdleSlot]
  /\ backlog = 0
  /\ faults = 0
  /\ storeFaults = 0
  /\ calls = 0
  /\ last = NoCall
  /\ mq = NoAdapter
  /\ rabbit = NoRabbit
  /\ relay = NoRelay
  /\ rm = NoRun
  /\ gate = NoGate
  /\ \E m \in 0..MaxConfigured : adm = [NoAdmission EXCEPT !.maxPending = m]

NextAdmit ==
  \/ AdmitCheck
  \/ AdmitMarkQueued
  \/ AdmitPublish
  \/ AdmitNext
  \/ AdmitConsume

SpecAdmit == InitAdmit /\ [][NextAdmit]_vars

(***************************************************************************)
(* Concurrent direct calls of initRabbitMQ and publishMessage in a process *)
(* that starts with no connection.                                         *)
(***************************************************************************)
\* initRabbitMQ / publishMessage up to their first await: the existing
\* channel is returned or used at once; otherwise createConnection returns
\* the existing connection or awaits amqplib.connect.
CallInit(c) ==
  /\ rabbit.callers[c].pc = "idle"
  /\ \E op \in {"initRabbitMQ", "publishMessage"} :
       LET called == [DirectCaller EXCEPT !.op = op]
       IN rabbit' = [rabbit EXCEPT !.callers[c] =
            IF rabbit.channel # 0
              THEN [called EXCEPT !.pc = "done", !.got = rabbit.channel, !.result = "ok"]
            ELSE IF rabbit.connection # 0
              THEN [called EXCEPT !.pc = "createChannel", !.conn = rabbit.connection]
            ELSE [called EXCEPT !.pc = "connect"]]
  /\ UNCHANGED <<adm, gate, rm, relay, backend, jobs, msgs, req, wk, backlog, faults, storeFaults, calls, last, mq>>

\* connection = await amqplib.connect(url): the new connection is stored
\* in the module variable; a failed connect is thrown to the caller.
ConnectDone(c) ==
  /\ rabbit.callers[c].pc = "connect"
  /\ \/ /\ rabbit' = [rabbit EXCEPT !.connection = rabbit.conns + 1,
                                     !.conns = @ + 1,
                                     !.callers[c].conn = rabbit.conns + 1,
                                     !.callers[c].pc = "createChannel"]
        /\ faults' = faults
     \/ /\ faults < MaxFaults
        /\ faults' = faults + 1
        /\ rabbit' = [rabbit EXCEPT !.callers[c].pc = "done",
                                     !.callers[c].result = "connect failed"]
  /\ UNCHANGED <<adm, gate, rm, relay, backend, jobs, msgs, req, wk, backlog, storeFaults, calls, last, mq>>

\* channel = await conn.createChannel(), prefetch, return channel.
ChannelDone(c) ==
  /\ rabbit.callers[c].pc = "createChannel"
  /\ rabbit' = [rabbit EXCEPT !.channel = rabbit.chans + 1,
                               !.chans = @ + 1,
                               !.callers[c].got = rabbit.chans + 1,
                               !.callers[c].pc = "done",
                               !.callers[c].result = "ok"]
  /\ UNCHANGED <<adm, gate, rm, relay, backend, jobs, msgs, req, wk, backlog, faults, storeFaults, calls, last, mq>>

InitDirect ==
  /\ backend = "amqp"
  /\ jobs = [j \in JobIds |-> NoJob]
  /\ msgs = <<>>
  /\ req = [r \in JobIds |-> NoRequest]
  /\ wk = [s \in Slots |-> IdleSlot]
  /\ backlog = 0
  /\ faults = 0
  /\ storeFaults = 0
  /\ calls = 0
  /\ last = NoCall
  /\ mq = NoAdapter
  /\ relay = NoRelay
  /\ rm = NoRun
  /\ gate = NoGate
  /\ adm = NoAdmission
  /\ rabbit = NoRabbit

NextDirect ==
  \/ \E c \in CallerIds : CallInit(c)
  \/ \E c \in CallerIds : ConnectDone(c)
  \/ \E c \in CallerIds : ChannelDone(c)

SpecDirect == InitDirect /\ [][NextDirect]_vars

(***************************************************************************)
(* The pipeline with a client that cancels the job through the update      *)
(* endpoint while a handler runs for it.                                   *)
(***************************************************************************)
\* updateJob of the job controller with the body {status: 'cancelled'}:
\* jobService.updateJobProgress on the job of a running handler.
ApiCancel(r) ==
  /\ req[r].cancels < MaxCancels
  /\ \E s \in Slots : wk[s].pc # "idle" /\ JobOf(s) = r
  /\ jobs' = [jobs EXCEPT ![r] =
                updateJobProgress(@, Upd(NoUnits, NoUnits, FALSE, 0, "cancelled", ""))]
  /\ req' = [req EXCEPT ![r].cancels = @ + 1]
  /\ last' = Returned("updateJobProgress", jobs'[r], ApiServer, "job.updated")
  /\ UNCHANGED <<rabbit, adm, gate, rm, relay, backend, msgs, wk, backlog, faults, storeFaults, calls, mq>>

NextCancel ==
  \/ Next
  \/ \E r \in JobIds : ApiCancel(r)

SpecCancel == Init /\ [][NextCancel]_vars

(***************************************************************************)
(* The bullmq pipeline with a caller that publishes the id of a job again  *)
(* after its request was answered.                                         *)
(***************************************************************************)
\* publishInspectionJob of queues/inspection.bullmq.js called once more
\* with the same jobId: the depth check, then queue.add.
Republish(r) ==
  /\ backend = "bullmq"
  /\ req[r].pc = "done"
  /\ req[r].adds < MaxAdds
  /\ ~bullSaturated(getQueueStats)
  /\ msgs' = queueAdd(msgs, r)
  /\ req' = [req EXCEPT ![r].adds = @ + 1]
  /\ UNCHANGED <<rabbit, adm, gate, rm, relay, backend, jobs, wk, backlog, faults, storeFaults, calls, last, mq>>

InitDedup == Init /\ backend = "bullmq"

NextDedup ==
  \/ \E r \in JobIds : ApiCreateJob(r)
  \/ \E r \in JobIds : ApiMarkQueued(r)
  \/ \E r \in JobIds : ApiGate(r)
  \/ \E r \in JobIds : ApiPublish(r)
  \/ \E r \in JobIds : ApiCatch(r)
  \/ \E r \in JobIds : Republish(r)
  \/ \E p \in Procs : \E m \in MsgIds : Deliver(p, m)
  \/ \E s \in Slots : HandlerStart(s)
  \/ \E s \in Slots : HandlerLookup(s)
  \/ \E s \in Slots : HandlerUnit(s)
  \/ \E s \in Slots : HandlerOrganize(s)
  \/ \E s \in Slots : HandlerSave(s)
  \/ \E s \in Slots : HandlerComplete(s)
  \/ \E s \in Slots : HandlerResult(s)
  \/ \E s \in Slots : HandlerCatch(s)
  \/ \E s \in Slots : Ack(s)
  \/ \E s \in Slots : Nack(s)
  \/ \E m \in MsgIds : Promote(m)

SpecDedup == InitDedup /\ [][NextDedup]_vars

(***************************************************************************)
(* One run of processInspectionJob on an inspection document: the photo   *)
(* loop, the reorganisation of the classification mode, inspection.save() *)
(* with the validation of roomSchema, and the terminal Job Store write.    *)
(***************************************************************************)
\* Room names the classifier answers with (two of ROOM_CLASSIFICATIONS).
RoomTypes == {"Kitchen", "Bedroom"}

\* analysis.condition as the analysis returns it; "" is no condition.
Conditions == {"excellent", "fair", "poor", "unrated", ""}

\* Where a photo lies before the run: the holding room or a named room.
Homes == {PendingName, "Kitchen"}

\* conditionScores[c] || 0
conditionScores(c) ==
  CASE c = "excellent" -> 5 [] c = "good" -> 4 [] c = "fair" -> 3
    [] c = "poor" -> 2 [] c = "critical" -> 1 [] OTHER -> 0

conditionNames == <<"unrated", "critical", "poor", "fair", "good", "excellent">>

\* enum of roomSchema.conditionRating.
RatingEnum == {"excellent", "good", "fair", "needs_maintenance"}

RECURSIVE SumScores(_)
SumScores(cs) ==
  IF cs = <<>> THEN 0 ELSE conditionScores(Head(cs)) + SumScores(Tail(cs))

\* conditionNames[Math.round(avgScore)] over a non-empty list.
roomCondition(cs) == conditionNames[Round(SumScores(cs), Len(cs)) + 1]

\* rooms.find((r) => r.name === name): the index of the first, 0 for none.
FindRoom(doc, name) ==
  IF \E r \in 1..Len(doc) : doc[r].name = name
    THEN CHOOSE r \in 1..Len(doc) :
           doc[r].name = name /\ \A q \in 1..(r - 1) : doc[q].name # name
    ELSE 0

\* The two loops that collect photosToProcess: positions (room r, photo k)
\* of the photos named in photoIds, in document order.
RECURSIVE photosToProcess(_, _, _)
photosToProcess(doc, ids, r) ==
  IF r > Len(doc) THEN <<>>
  ELSE LET InJob(x) == doc[r].photos[x.k].id \in ids
       IN SelectSeq([k \in 1..Len(doc[r].photos) |-> [r |-> r, k |-> k]], InJob)
            \o photosToProcess(doc, ids, r + 1)

\* roomClassifications.get(roomType).push(...), the entry created first
\* when the map has none for the room type.
Classify(classes, roomType, photo) ==
  IF \E c \in 1..Len(classes) : classes[c].roomType = roomType
    THEN [c \in 1..Len(classes) |->
            IF classes[c].roomType = roomType
              THEN [classes[c] EXCEPT !.photos = Append(@, photo)]
              ELSE classes[c]]
    ELSE Append(classes, [roomType |-> roomType, photos |-> <<photo>>])

\* One pass of the 'create or update rooms' loop.
PlaceClass(doc, cl) ==
  LET found == IF cl.roomType = PendingName THEN 0 ELSE FindRoom(doc, cl.roomType)
      named == Cardinality({r \in 1..Len(doc) : doc[r].name # PendingName})
      rooms == IF found # 0 THEN doc
               ELSE Append(doc, RoomDoc(cl.roomType, named + 1, "unrated", <<>>))
      r == IF found # 0 THEN found ELSE Len(rooms)
      HasCondition(c) == c # ""
      conditions == SelectSeq([k \in 1..Len(cl.photos) |-> cl.photos[k].condition],
                              HasCondition)
  IN [rooms EXCEPT
        ![r].photos = @ \o cl.photos,
        ![r].conditionRating = IF conditions # <<>> THEN roomCondition(conditions) ELSE @]

RECURSIVE PlaceAll(_, _)
PlaceAll(doc, classes) ==
  IF classes = <<>> THEN doc ELSE PlaceAll(PlaceClass(doc, Head(classes)), Tail(classes))

\* The reorganisation: the job's photos leave the holding room, every
\* classification is placed, an empty holding room is dropped.
Organize(doc, ids, classes) ==
  LET p == FindRoom(doc, PendingName)
      NotInJob(x) == x.id \notin ids
      removed == IF p = 0 THEN doc ELSE [doc EXCEPT ![p].photos = SelectSeq(@, NotInJob)]
      Kept(room) == room.name # PendingName \/ room.photos # <<>>
  IN SelectSeq(PlaceAll(removed, classes), Kept)

\* The validation of inspection.save(): every conditionRating that is set
\* is a value of the enum.
Validates(doc) == \A r \in 1..Len(doc) : doc[r].conditionRating \in RatingEnum

\* The inspection as the run finds it: the named room and the holding room
\* (created by registerPhotos with rating 'fair'), each when it holds a
\* photo or is listed in extra.
InspectionDoc(n, home, extra) ==
  LET InKitchen(k) == home[k] = "Kitchen"
      InPending(k) == home[k] = PendingName
      ids == [k \in 1..n |-> k]
      kitchen == [k \in 1..Len(SelectSeq(ids, InKitchen)) |->
                    Photo(SelectSeq(ids, InKitchen)[k])]
      pending == [k \in 1..Len(SelectSeq(ids, InPending)) |->
                    [Photo(SelectSeq(ids, InPending)[k]) EXCEPT !.pending = TRUE]]
  IN (IF kitchen # <<>> \/ "Kitchen" \in extra
        THEN <<RoomDoc("Kitchen", 1, "good", kitchen)>> ELSE <<>>)
     \o (IF pending # <<>> \/ PendingName \in extra
           THEN <<RoomDoc(PendingName, 999, "fair", pending)>> ELSE <<>>)

\* updateJobProgress(processing, 5); Inspection.findOne; photosToProcess;
\* markJobCompleted at once when no photo matches.
RunStart ==
  /\ rm.pc = "start"
  /\ LET todo == photosToProcess(rm.stored, rm.photoIds, 1)
     IN rm' = [rm EXCEPT !.doc = rm.stored, !.toProcess = todo, !.i = 1,
                         !.pc = IF todo = <<>> THEN "complete" ELSE "photo"]
  /\ jobs' = [jobs EXCEPT ![1] =
                updateJobProgress(@, Upd(NoUnits, NoUnits, TRUE, 5, "processing", "started"))]
  /\ UNCHANGED <<rabbit, adm, gate, relay, backend, msgs, req, wk, backlog, faults, storeFaults, calls, last, mq>>

\* One pass of the photo loop: the progress write, the classification of a
\* photo of the holding room in classification mode, the analysis, the
\* fields of the photo, the roomClassifications entry.
RunPhoto ==
  /\ rm.pc = "photo"
  /\ \E classified \in RoomTypes, condition \in Conditions :
       LET at == rm.toProcess[rm.i]
           total == Len(rm.toProcess)
           originalRoom == rm.doc[at.r]
           classify == rm.ai /\ originalRoom.name = PendingName
           roomType == IF classify THEN classified ELSE originalRoom.name
           photo == [originalRoom.photos[at.k] EXCEPT
                       !.roomClassification = roomType,
                       !.condition = condition,
                       !.pending = FALSE]
       IN /\ (~classify => classified = "Kitchen")
          /\ rm' = [rm EXCEPT
               !.doc[at.r].photos[at.k] = photo,
               !.classes = Classify(@, roomType, photo),
               !.i = @ + 1,
               !.pc = IF rm.i < total THEN "photo"
                      ELSE IF rm.ai THEN "organize" ELSE "save"]
          /\ jobs' = [jobs EXCEPT ![1] =
               updateJobProgress(@, Upd(rm.i, total, TRUE,
                                        bullProgress(rm.i - 1, total), "", "unit"))]
  /\ UNCHANGED <<rabbit, adm, gate, relay, backend, msgs, req, wk, backlog, faults, storeFaults, calls, last, mq>>

\* Classification mode: the progress write at 90 and the reorganisation.
RunOrganize ==
  /\ rm.pc = "organize"
  /\ rm' = [rm EXCEPT !.doc = Organize(rm.doc, rm.photoIds, rm.classes), !.pc = "save"]
  /\ jobs' = [jobs EXCEPT ![1] =
                updateJobProgress(@, Upd(NoUnits, NoUnits, TRUE, 90, "", "organizing"))]
  /\ UNCHANGED <<rabbit, adm, gate, relay, backend, msgs, req, wk, backlog, faults, storeFaults, calls, last, mq>>

\* inspection.markModified('rooms'); await inspection.save(): the document
\* is stored when it validates, a ValidationError is thrown otherwise.
RunSave ==
  /\ rm.pc = "save"
  /\ rm' = IF Validates(rm.doc)
             THEN [rm EXCEPT !.stored = rm.doc, !.pc = "complete"]
             ELSE [rm EXCEPT !.pc = "catch"]
  /\ UNCHANGED <<rabbit, adm, gate, relay, backend, jobs, msgs, req, wk, backlog, faults, storeFaults, calls, last, mq>>

\* markJobCompleted and the return of the handler.
RunComplete ==
  /\ rm.pc = "complete"
  /\ rm' = [rm EXCEPT !.pc = "done"]
  /\ jobs' = [jobs EXCEPT ![1] =
                markJobCompletedResult(markJobCompletedUpdate(@, "completed"), "result")]
  /\ UNCHANGED <<rabbit, adm, gate, relay, backend, msgs, req, wk, backlog, faults, storeFaults, calls, last, mq>>

\* The catch block: markJobFailed and the rethrow.
RunCatch ==
  /\ rm.pc = "catch"
  /\ rm' = [rm EXCEPT !.pc = "failed"]
  /\ jobs' = [jobs EXCEPT ![1] = markJobFailed(@, "Validation failed")]
  /\ UNCHANGED <<rabbit, adm, gate, relay, backend, msgs, req, wk, backlog, faults, storeFaults, calls, last, mq>>

InitRooms ==
  /\ backend = "bullmq"
  /\ msgs = <<>>
  /\ req = <<>>
  /\ wk = <<>>
  /\ backlog = 0
  /\ faults = 0
  /\ storeFaults = 0
  /\ calls = 0
  /\ last = NoCall
  /\ mq = NoAdapter
  /\ rabbit = NoRabbit
  /\ adm = NoAdmission
  /\ gate = NoGate
  /\ relay = NoRelay
  /\ \E n \in 1..MaxPhotos, extra \in SUBSET Homes, ai \in BOOLEAN :
       \E home \in [1..n -> Homes], ids \in SUBSET (1..n) :
         /\ rm = [NoRun EXCEPT !.pc = "start",
                               !.before = InspectionDoc(n, home, extra),
                               !.stored = InspectionDoc(n, home, extra),
                               !.photoIds = ids, !.ai = ai]
         /\ jobs = [j \in JobIds |->
                      markJobQueued(createJob(Cardinality(ids), Cardinality(ids), ai))]

NextRooms ==
  \/ RunStart
  \/ RunPhoto
  \/ RunOrganize
  \/ RunSave
  \/ RunComplete
  \/ RunCatch

SpecRooms == InitRooms /\ [][NextRooms]_vars

(***************************************************************************)
(* Event Relay, socket side: the connection handler of initSocket, the     *)
(* two emitters (emitInspectionEvent in an API process, the subscriber of  *)
(* socket:events for what the worker publishes) and the packets to the     *)
(* clients.                                                                *)
(***************************************************************************)
EmitIds == 1..Len(relay.emitted)

\* The sockets in a room, on whichever server they are connected.
InRoom(r, room) ==
  {c \in SocketIds : r.sockets[c].state = "connected" /\ room \in r.sockets[c].rooms}

\* to(room) widened to the whole namespace of the server.
ToNamespace(r, proc, room) ==
  {c \in SocketIds : r.sockets[c].state = "connected" /\ r.sockets[c].proc = proc}

\* io.of('/inspections').to(room): the sockets of this server in the room.
To(r, proc, room) == {c \in InRoom(r, room) : r.sockets[c].proc = proc}

\* namespace.to(room).emit(event, payload) for emission e on the server of
\* proc: one packet to each socket of the room.
ioEmit(r, proc, e) ==
  LET room == r.emitted[e].room
  IN [r EXCEPT
        !.packets = @ (+) SetToBag({<<c, e>> : c \in To(r, proc, room)}),
        !.emitted[e].joined = @ \cup {c \in InRoom(r, room) : r.sockets[c].proc = proc}]

\* A client connects to the /inspections namespace of one API process; the
\* socket joins the room of handshake.query.inspectionId when there is one.
SocketConnect(c) ==
  /\ relay.sockets[c].state = "new"
  /\ \A k \in SocketIds : k < c => relay.sockets[k].state # "new"
  /\ \E proc \in ApiProcs, q \in InspIds \cup {0} :
       relay' = [relay EXCEPT !.sockets[c] =
                   [state |-> "connected", proc |-> proc,
                    rooms |-> IF q # 0 THEN {q} ELSE {}]]
  /\ UNCHANGED <<rabbit, adm, gate, rm, backend, jobs, msgs, req, wk, backlog, faults, storeFaults, calls, last, mq>>

\* socket.on('join-inspection').
JoinInspection(c) ==
  /\ relay.sockets[c].state = "connected"
  /\ \E i \in InspIds :
       /\ i \notin relay.sockets[c].rooms
       /\ relay' = [relay EXCEPT !.sockets[c].rooms = @ \cup {i}]
  /\ UNCHANGED <<rabbit, adm, gate, rm, backend, jobs, msgs, req, wk, backlog, faults, storeFaults, calls, last, mq>>

\* socket.on('leave-inspection').
LeaveInspection(c) ==
  /\ relay.sockets[c].state = "connected"
  /\ \E i \in InspIds :
       /\ i \in relay.sockets[c].rooms
       /\ relay' = [relay EXCEPT !.sockets[c].rooms = @ \ {i}]
  /\ UNCHANGED <<rabbit, adm, gate, rm, backend, jobs, msgs, req, wk, backlog, faults, storeFaults, calls, last, mq>>

\* The socket disconnects: it leaves its rooms and the packets that have
\* not reached the client are lost.
SocketDisconnect(c) ==
  /\ relay.sockets[c].state = "connected"
  /\ relay' = [relay EXCEPT
       !.sockets[c] = [state |-> "disconnected", proc |-> "", rooms |-> {}],
       !.packets = [x \in {y \in DOMAIN relay.packets : y[1] # c} |-> relay.packets[x]]]
  /\ UNCHANGED <<rabbit, adm, gate, rm, backend, jobs, msgs, req, wk, backlog, faults, storeFaults, calls, last, mq>>

\* emitInspectionEvent(inspectionId, event, payload) called in a process:
\* nothing without io or without an inspection id.
EmitLocal(proc, i) ==
  /\ relay.emitted = <<>>
  /\ HasIo(proc) /\ i # 0
  /\ LET e == Len(relay.emitted) + 1
         r == [relay EXCEPT !.emitted =
                 Append(@, [room |-> i, via |-> "local", joined |-> {}])]
     IN relay' = ioEmit(r, proc, e)
  /\ UNCHANGED <<rabbit, adm, gate, rm, backend, jobs, msgs, req, wk, backlog, faults, storeFaults, calls, last, mq>>

\* emitSocketEvent of the worker: one message on socket:events, which
\* Redis hands to the subscriber of every API process.
WorkerPublish(i) ==
  /\ relay.emitted = <<>>
  /\ LET e == Len(relay.emitted) + 1
     IN relay' = [relay EXCEPT
          !.emitted = Append(@, [room |-> i, via |-> "redis", joined |-> {}]),
          !.bus = [p \in ApiProcs |-> Append(relay.bus[p], e)]]
  /\ UNCHANGED <<rabbit, adm, gate, rm, backend, jobs, msgs, req, wk, backlog, faults, storeFaults, calls, last, mq>>

\* subClient.on('message'): the subscriber of proc emits the message to
\* the room it names.
RelayMessage(proc) ==
  /\ relay.bus[proc] # <<>>
  /\ relay' = ioEmit([relay EXCEPT !.bus[proc] = Tail(@)], proc, Head(relay.bus[proc]))
  /\ UNCHANGED <<rabbit, adm, gate, rm, backend, jobs, msgs, req, wk, backlog, faults, storeFaults, calls, last, mq>>

\* A packet reaches its client.
Receive(c, e) ==
  /\ BagIn(<<c, e>>, relay.packets)
  /\ relay' = [relay EXCEPT !.packets = @ (-) SetToBag({<<c, e>>}),
                            !.received = @ (+) SetToBag({<<c, e>>})]
  /\ UNCHANGED <<rabbit, adm, gate, rm, backend, jobs, msgs, req, wk, backlog, faults, storeFaults, calls, last, mq>>

InitRelay ==
  /\ backend = "bullmq"
  /\ jobs = [j \in JobIds |-> NoJob]
  /\ msgs = <<>>
  /\ req = <<>>
  /\ wk = <<>>
  /\ backlog = 0
  /\ faults = 0
  /\ storeFaults = 0
  /\ calls = 0
  /\ last = NoCall
  /\ mq = NoAdapter
  /\ rabbit = NoRabbit
  /\ adm = NoAdmission
  /\ gate = NoGate
  /\ rm = NoRun
  /\ relay = NoRelay

NextRelay ==
  \/ \E c \in SocketIds : SocketConnect(c)
  \/ \E c \in SocketIds : JoinInspection(c)
  \/ \E c \in SocketIds : LeaveInspection(c)
  \/ \E c \in SocketIds : SocketDisconnect(c)
  \/ \E proc \in ApiProcs \cup {WorkerProc}, i \in InspIds \cup {0} : EmitLocal(proc, i)
  \/ \E i \in InspIds : WorkerPublish(i)
  \/ \E proc \in ApiProcs : RelayMessage(proc)
  \/ \E c \in SocketIds, e \in EmitIds : Receive(c, e)

SpecRelay == InitRelay /\ [][NextRelay]_vars


(***************************************************************************)
(* Properties.                                                             *)
(***************************************************************************)
Rank(status) ==
  CASE status = "absent" -> 0
    [] status = "pending" -> 1
    [] status = "queued" -> 2
    [] status = "processing" -> 3
    [] OTHER -> 4

BusySlots == {s \in Slots : wk[s].pc # "idle"}
MsgsOf(j) == {m \in MsgIds : msgs[m].job = j}

\* C1: the status of a job never moves backward in the order
\* pending < queued < processing < {completed, failed, cancelled}, except by
\* a write of cancelled.
C1_StatusForwardOnly ==
  [][\A j \in JobIds :
       Rank(jobs'[j].status) >= Rank(jobs[j].status) \/ jobs'[j].status = "cancelled"]_vars

\* C2: a publish requested while the depth is at or above maxPending is
\* rejected with a 503, sends no broker message and leaves the job pending.
C2_SaturatedRejects ==
  \A r \in JobIds :
    req[r].saturated =>
      /\ req[r].rejected
      /\ jobs[r].status = "pending"
      /\ MsgsOf(r) = {}
      /\ (req[r].pc = "done" => req[r].outcome = "503")

\* C3: on the amqp consumer every delivered message is settled exactly
\* once, by one ack or one nack without requeue: never both, never twice,
\* never requeued, and a message whose callback has ended is settled.
C3_SettledExactlyOnce ==
  backend = "amqp" =>
    \A m \in MsgIds :
      /\ msgs[m].acks + msgs[m].nacks <= 1
      /\ msgs[m].requeues = 0
      /\ (msgs[m].runs > 0 /\ (\A s \in BusySlots : wk[s].msg # m)
            => msgs[m].acks + msgs[m].nacks = 1)
      /\ (msgs[m].state \in {"completed", "failed"} <=> msgs[m].acks + msgs[m].nacks = 1)

\* The handler threw, recording the failure threw too, and the message was
\* nacked once by the consumer callback.
C3_Witness ==
  /\ backend = "amqp"
  /\ storeFaults > 0
  /\ \E m \in MsgIds :
       /\ msgs[m].nacks = 1 /\ msgs[m].acks = 0 /\ msgs[m].state = "failed"
       /\ jobs[msgs[m].job].status = "failed"

\* C4: the handler is invoked at most once per published message, and a
\* message whose handler threw leaves its job failed.
C4_AtMostOneRun ==
  \A m \in MsgIds :
    /\ msgs[m].runs <= 1
    /\ (msgs[m].nacks > 0 /\ storeFaults = 0 => jobs[msgs[m].job].status = "failed")

\* C5: once the handler has thrown for a job (the Job Store being
\* available), the job is failed with lastError set to the error message
\* and no completion is recorded afterwards.
C5_FailedStaysFailed ==
  \A m \in MsgIds :
    (msgs[m].nacks > 0 /\ storeFaults = 0) =>
      LET job == jobs[msgs[m].job]
      IN /\ job.status = "failed"
         /\ job.lastError \in {"Inspection not found", "unit failed", "save failed"}
         /\ \A i \in 1..Len(job.events) :
              job.events[i].type = "job.failed" =>
                \A k \in (i+1)..Len(job.events) : job.events[k].message # "completed"

C7_QueuedAtPickup ==
  \A s \in BusySlots : wk[s].pc = "start" => jobs[JobOf(s)].status = "queued"

\* C8: when a message is acked after a successful handler run, the job is
\* already completed in the Job Store.
C8_CompletedBeforeAck ==
  /\ \A s \in BusySlots : wk[s].pc = "ack" => jobs[JobOf(s)].status = "completed"
  /\ \A m \in MsgIds :
       msgs[m].runs > 0 /\ msgs[m].acks > 0 => jobs[msgs[m].job].status = "completed"

\* A message has been acked and its job holds the completion entry and the
\* result.
C8_Witness ==
  \E m \in MsgIds :
    /\ msgs[m].parsable
    /\ msgs[m].acks = 1 /\ msgs[m].state = "completed"
    /\ jobs[msgs[m].job].status = "completed"
    /\ jobs[msgs[m].job].result = "result"

\* The progress values of the entries that carry one, in order.
RECURSIVE ProgressValues(_)
ProgressValues(events) ==
  IF events = <<>> THEN <<>>
  ELSE IF Head(events).hasProgress
         THEN <<Head(events).progress>> \o ProgressValues(Tail(events))
         ELSE ProgressValues(Tail(events))

NonDecreasing(seq) == \A i \in 1..(Len(seq) - 1) : seq[i] <= seq[i + 1]

\* C9: for a job processed by one handler invocation, the progress values
\* of its events, from job.created to the completion entry, are
\* non-decreasing.
C9_ProgressNonDecreasing ==
  \A j \in JobIds :
    (\A m \in MsgsOf(j) : msgs[m].runs <= 1) =>
      NonDecreasing(ProgressValues(jobs[j].events))

\* A job completed by one handler invocation over two photos in
\* classification mode: 0, 5, 50, 90, 90, 100.
C9_Witness ==
  \E j \in JobIds :
    /\ jobs[j].status = "completed"
    /\ \A m \in MsgsOf(j) : msgs[m].runs = 1
    /\ ProgressValues(jobs[j].events) = <<0, 5, 50, 90, 90, 100>>

\* C10: after any sequence of Job Store calls with arbitrary numeric
\* progress inputs, the stored top-level progress of every job is in [0,100].
C10_ProgressInRange ==
  \A j \in JobIds : Exists(j) => (jobs[j].progress >= 0 /\ jobs[j].progress <= 100)

\* An out-of-range input has been written: an update entry carries the
\* clamped bound and the top-level progress sits at that bound.
C10_Witness ==
  \E j \in JobIds :
    /\ Exists(j)
    /\ jobs[j].progress = 100
    /\ jobs[j].status # "completed"
    /\ \E i \in 1..Len(jobs[j].events) :
         jobs[j].events[i].type = "job.note" /\ jobs[j].events[i].progress = 250

IsPrefix(a, b) == Len(a) <= Len(b) /\ \A i \in 1..Len(a) : a[i] = b[i]

\* C11: events is append-only: across every Job Store operation, also one
\* that runs between the writes of another call on the same job, the
\* events list before is a prefix of the events list after.
C11_EventsAppendOnly ==
  [][\A j \in DOMAIN jobs : IsPrefix(jobs[j].events, jobs'[j].events)]_vars

\* A markJobFailed ran between the two writes of a markJobCompleted: the
\* job.created entry, the completion entry and the failure entry, in order.
C11_Witness ==
  /\ calls = 1
  /\ Len(jobs[1].events) = 3
  /\ jobs[1].events[1].type = "job.created"
  /\ jobs[1].events[2].message = "Job completed successfully"
  /\ jobs[1].events[3].type = "job.failed"

\* C12: a job that create returns has status pending, progress 0 and
\* exactly one events entry, of type job.created, and create succeeds.
C12_CreateResult ==
  [][\A j \in DOMAIN jobs :
       (jobs[j].status = "absent" /\ jobs'[j].status # "absent") =>
         /\ last'.call = "createJob" /\ last'.error = ""
         /\ jobs'[j].status = "pending"
         /\ jobs'[j].progress = 0
         /\ Len(jobs'[j].events) = 1
         /\ jobs'[j].events[1].type = "job.created"]_vars

\* A job created for two photos in classification mode, as returned.
C12_Witness ==
  /\ last.call = "createJob" /\ last.error = ""
  /\ \E j \in JobIds :
       /\ jobs[j].status = "pending" /\ jobs[j].totalUnits = 2 /\ jobs[j].ai
       /\ Len(jobs[j].events) = 1

\* C13: a markJobCompleted call on a job that is already completed with
\* its result stored succeeds and changes nothing of the document except
\* appending one events entry.
C13_SecondCompleteOnlyAppends ==
  [][(/\ jobs[1].status = "completed" /\ jobs[1].result = "result"
      /\ last'.call = "markJobCompleted")
       => /\ last'.error = ""
          /\ [jobs'[1] EXCEPT !.events = <<>>] = [jobs[1] EXCEPT !.events = <<>>]
          /\ IsPrefix(jobs[1].events, jobs'[1].events)
          /\ Len(jobs'[1].events) <= Len(jobs[1].events) + 1]_vars

\* C14: in every reachable state a job holds a result only if its status
\* is completed.
C14_ResultOnlyIfCompleted ==
  \A j \in DOMAIN jobs : jobs[j].result # "" => jobs[j].status = "completed"

MutatingCalls ==
  {"appendJobEvent", "updateJobProgress", "markJobCompleted", "markJobFailed",
   "markJobQueued"}

\* C15: appendJobEvent, updateJobProgress, markJobCompleted, markJobFailed
\* and markJobQueued called with an id that resolves to no document fail
\* with NotFound, create no record, change no other job and emit nothing.
C15_NotFound ==
  [][(jobs[1].status = "absent" /\ last'.call \in MutatingCalls) =>
       /\ last'.error = "NotFound"
       /\ jobs' = jobs
       /\ calls' = calls
       /\ last'.em = NoEmission]_vars

\* markJobCompleted was called with the id of no document while another
\* job exists: NotFound, and the store holds the other job only.
C15_Witness ==
  /\ last.call = "markJobCompleted" /\ last.error = "NotFound"
  /\ jobs[1] = NoJob
  /\ jobs[2].status = "pending"

\* C16: a message whose payload does not parse is acked at once and
\* discarded: the handler never runs for it, it is delivered once, never
\* nacked or requeued, and its delivery changes no Job Store record.
C16_PoisonAcked ==
  [][\A m \in DOMAIN msgs :
       ~msgs[m].parsable =>
         /\ msgs'[m].runs = 0
         /\ msgs'[m].deliveries <= 1
         /\ msgs'[m].nacks = 0 /\ msgs'[m].requeues = 0
         /\ msgs'[m].acks = msgs'[m].deliveries
         /\ (msgs'[m].state = IF msgs'[m].deliveries = 1 THEN "completed" ELSE "waiting")
         /\ \A s \in Slots : wk'[s].msg # m
         /\ (msgs'[m] # msgs[m] => jobs' = jobs)]_vars

\* The unparsable message has been acked without a handler run while the
\* job published after it was handled to completion.
C16_Witness ==
  /\ Len(msgs) = 2
  /\ ~msgs[1].parsable /\ msgs[1].state = "completed" /\ msgs[1].acks = 1
  /\ msgs[1].runs = 0
  /\ msgs[2].state = "completed" /\ jobs[msgs[2].job].status = "completed"

SetupIds == 1..Len(mq.promises)

\* C17: ensureQueue is single-flight and idempotent: at most one setup is
\* running or established at any time, an established setup is the stored
\* promise, every caller that was handed a channel was handed the channel
\* of that one setup, and a rejected promise is never the stored one, so a
\* call after a failed setup starts (or joins) a fresh setup.
C17_SingleFlight ==
  /\ Cardinality({p \in SetupIds : mq.promises[p].state # "rejected"}) <= 1
  /\ \A p \in SetupIds :
       mq.promises[p].state # "rejected" => mq.setupPromise = p
  /\ (mq.setupPromise # 0 => mq.promises[mq.setupPromise].state # "rejected")
  /\ \A c \in CallerIds :
       /\ (mq.callers[c].got # 0 =>
             /\ mq.setupPromise # 0
             /\ mq.callers[c].got = mq.promises[mq.setupPromise].channel)
       /\ (mq.callers[c].pc = "await" =>
             /\ mq.callers[c].promise = mq.setupPromise
             /\ Running(mq.promises[mq.setupPromise]))

\* A first setup failed and the connection was closed; two callers then
\* awaited the second setup and both were handed its channel.
C17_Witness ==
  /\ Len(mq.promises) = 2
  /\ mq.promises[1].state = "rejected"
  /\ mq.promises[2].state = "resolved"
  /\ \A c \in {1, 2} : mq.callers[c].got = mq.promises[2].channel
                         /\ mq.callers[c].afterClose

\* C18: after the broker connection closed, a publish called in the same
\* process (the broker accepting connections, no setup failing) succeeds.
C18_PublishAfterClose ==
  \A c \in CallerIds :
    (/\ mq.callers[c].pc = "done" /\ mq.callers[c].op = "publish"
     /\ mq.callers[c].afterClose /\ faults = 0)
      => mq.callers[c].result = "ok"

Settled(m) == msgs[m].state \in {"completed", "failed"}

C20_RelayFanOut ==
  (last.call # "" /\ last.error = "") =>
    /\ last.em.events # <<>>
    /\ last.em.published
    /\ last.em.local = ApiProcs

\* C21: every emission reaches a socket at most once, and only sockets
\* that were joined to the room of its inspection id when a socket server
\* emitted it: no packet is sent to, and none is received by, a socket that
\* joined afterwards, had left, or was only in another inspection's room.
C21_AtMostOnceInRoom ==
  /\ \A x \in BagToSet(relay.received) :
       /\ CopiesIn(x, relay.received) = 1
       /\ x[1] \in relay.emitted[x[2]].joined
  /\ \A x \in BagToSet(relay.packets) :
       /\ CopiesIn(x, relay.packets) + CopiesIn(x, relay.received) = 1
       /\ x[1] \in relay.emitted[x[2]].joined

\* A message published by the worker was relayed by both API processes:
\* the socket then in its room received it once; the other socket, which
\* joined that room after the relay, received nothing.
C21_Witness ==
  /\ Len(relay.emitted) >= 1
  /\ relay.emitted[1].via = "redis"
  /\ \A p \in ApiProcs : relay.bus[p] = <<>>
  /\ relay.packets = EmptyBag
  /\ CopiesIn(<<1, 1>>, relay.received) = 1
  /\ relay.sockets[2].state = "connected"
  /\ relay.emitted[1].room \in relay.sockets[2].rooms
  /\ 2 \notin relay.emitted[1].joined
  /\ CopiesIn(<<2, 1>>, relay.received) = 0

\* C22: on bullmq, however often the id of a job is published while its
\* broker job exists, the queue holds one broker job for it, keyed
\* inspection-<jobId>; that job is handled as a job published once is: it
\* completes at most once and is run at most `attempts` times.
C22_DedupSingleBrokerJob ==
  \A r \in JobIds :
    /\ Cardinality(MsgsOf(r)) <= 1
    /\ \A m \in MsgsOf(r) :
         /\ msgs[m].key = bullJobId(r)
         /\ msgs[m].acks <= 1
         /\ msgs[m].runs <= Attempts
         /\ (msgs[m].state = "completed" => msgs[m].acks = 1)
         /\ Cardinality({s \in BusySlots : wk[s].msg = m}) <= 1

\* The id was published twice; the one broker job completed after one
\* handler run.
C22_Witness ==
  \E r \in JobIds :
    /\ req[r].adds = 2
    /\ \E m \in MsgsOf(r) :
         /\ msgs[m].state = "completed" /\ msgs[m].runs = 1
         /\ jobs[r].status = "completed"

\* The entries a handler run recorded between its start entry and its
\* last entry.
ProgressEntries(job) ==
  LET k == CHOOSE i \in 1..Len(job.events) : job.events[i].message = "started"
  IN SubSeq(job.events, k + 1, Len(job.events) - 1)

\* C23: a job with N >= 1 photos completed by one run of the bullmq handler
\* holds exactly N progress entries before the completion entry, the i-th
\* (0-based) with round((i+1)/N*80)+10, each within [10,90], the last 90,
\* and the completion entry carries 100.
C23_NProgressEvents ==
  \A m \in MsgIds :
    (/\ backend = "bullmq" /\ msgs[m].state = "completed" /\ msgs[m].runs = 1
     /\ jobs[msgs[m].job].units >= 1)
      => LET job == jobs[msgs[m].job]
             N == job.units
             entries == ProgressEntries(job)
         IN /\ Len(entries) = N
            /\ \A i \in 1..Len(entries) :
                 /\ entries[i].hasProgress
                 /\ entries[i].progress = Round(i * 80, N) + 10
                 /\ entries[i].progress >= 10 /\ entries[i].progress <= 90
            /\ entries[Len(entries)].progress = 90
            /\ job.events[Len(job.events)].progress = 100

\* The rooms of a document that bear a name.
RoomsNamed(doc, name) == {r \in 1..Len(doc) : doc[r].name = name}

PhotoIdsOf(photos) == [k \in 1..Len(photos) |-> photos[k].id]

\* The conditions a list of photos carries.
RECURSIVE ConditionsOf(_)
ConditionsOf(photos) ==
  IF photos = <<>> THEN <<>>
  ELSE (IF Head(photos).condition # "" THEN <<Head(photos).condition>> ELSE <<>>)
         \o ConditionsOf(Tail(photos))

RunEnded == rm.pc \in {"done", "failed"}

\* C24: when a run in classification mode put several photos into one room
\* name that the inspection did not have, the job is completed and the
\* stored inspection holds exactly one room of that name, with exactly
\* those photos and, as its condition rating, the named level at the
\* rounded average of their condition scores.
C24_NewRoomPersisted ==
  (RunEnded /\ rm.ai) =>
    \A c \in 1..Len(rm.classes) :
      LET cl == rm.classes[c]
      IN (Len(cl.photos) >= 2 /\ RoomsNamed(rm.before, cl.roomType) = {}) =>
           /\ jobs[1].status = "completed"
           /\ Cardinality(RoomsNamed(rm.stored, cl.roomType)) = 1
           /\ \A r \in RoomsNamed(rm.stored, cl.roomType) :
                /\ PhotoIdsOf(rm.stored[r].photos) = PhotoIdsOf(cl.photos)
                /\ (ConditionsOf(cl.photos) # <<>> =>
                      rm.stored[r].conditionRating =
                        conditionNames[Round(SumScores(ConditionsOf(cl.photos)),
                                             Len(ConditionsOf(cl.photos))) + 1])

\* How often photo id lies in the rooms of a document.
RECURSIVE Occurrences(_, _)
Occurrences(doc, id) ==
  IF doc = <<>> THEN 0
  ELSE Cardinality({k \in 1..Len(Head(doc).photos) : Head(doc).photos[k].id = id})
         + Occurrences(Tail(doc), id)

Processed == {rm.before[rm.toProcess[t].r].photos[rm.toProcess[t].k].id :
                t \in 1..Len(rm.toProcess)}

\* C25: after a completed run in classification mode every processed photo
\* lies once in the stored inspection, in its resolved room and not in the
\* holding room; the photos of the holding room that are not of the job
\* are still there; and there is a holding room exactly when it holds
\* photos.
C25_PhotosReorganised ==
  (rm.pc = "done" /\ rm.ai /\ Processed # {}) =>
    /\ \A id \in Processed :
         /\ Occurrences(rm.stored, id) = 1
         /\ \A r \in 1..Len(rm.stored) : \A k \in 1..Len(rm.stored[r].photos) :
              rm.stored[r].photos[k].id = id =>
                /\ rm.stored[r].name # PendingName
                /\ rm.stored[r].name = rm.stored[r].photos[k].roomClassification
    /\ \A b \in RoomsNamed(rm.before, PendingName) :
         \A k \in 1..Len(rm.before[b].photos) :
           rm.before[b].photos[k].id \notin rm.photoIds =>
             \E r \in RoomsNamed(rm.stored, PendingName) :
               \E q \in 1..Len(rm.stored[r].photos) :
                 rm.stored[r].photos[q].id = rm.before[b].photos[k].id
    /\ \A r \in RoomsNamed(rm.stored, PendingName) : rm.stored[r].photos # <<>>

\* The entries of a job that its handler wrote.
HandlerEntries(job) ==
  LET ByHandler(e) == e.message \notin {"Job created", "Job queued"}
  IN SelectSeq(job.events, ByHandler)

\* The entries one handler run writes for a job when nothing throws.
RunEntries(job) ==
  LET total == TotalOf(job)
      progress(i) == IF backend = "amqp" THEN amqpProgress(i, total)
                                         ELSE bullProgress(i, total)
  IN <<Event("job.update", "started", TRUE, 5)>>
       \o [i \in 1..total |-> Event("job.update", "unit", TRUE, progress(i - 1))]
       \o (IF backend = "bullmq" /\ job.ai /\ total > 0
             THEN <<Event("job.update", "organizing", TRUE, 90)>> ELSE <<>>)
       \o <<Event("job.update", "completed", TRUE, 100)>>

\* C26: a cancelled status written while the handler runs changes nothing
\* of the handler: the write leaves the handler where it is, and the
\* entries the handler writes in its run are those of a run without a
\* cancel: all of them, ending with its completion entry, when nothing
\* threw, and a prefix of them followed by the failure entry otherwise.
C26_CancelNotObserved ==
  \A m \in MsgIds :
    (msgs[m].parsable /\ msgs[m].runs = 1) =>
      LET job == jobs[msgs[m].job]
          written == HandlerEntries(job)
          all == RunEntries(job)
          threw == written # <<>> /\ written[Len(written)].type = "job.failed"
          body == IF threw THEN SubSeq(written, 1, Len(written) - 1) ELSE written
      IN /\ IsPrefix(body, all)
         /\ (threw => faults > 0 /\ body # all)
         /\ (msgs[m].state = "completed" => written = all)
         /\ (msgs[m].nacks > 0 => faults > 0)
         /\ (msgs[m].state = "active" =>
               \E s \in BusySlots : wk[s].msg = m)

\* The job was cancelled while its handler ran; the handler went on to
\* write every entry of its run and its completion over the cancelled
\* status, and the message was acked.
C26_Witness ==
  \E m \in MsgIds :
    /\ msgs[m].parsable /\ msgs[m].runs = 1 /\ msgs[m].state = "completed"
    /\ req[msgs[m].job].cancels = 1
    /\ jobs[msgs[m].job].units = 2
    /\ jobs[msgs[m].job].status = "completed"
    /\ jobs[msgs[m].job].completedAt = 2
    /\ HandlerEntries(jobs[msgs[m].job]) = RunEntries(jobs[msgs[m].job])

Publishers == {p \in PublisherIds : gate.pub[p] # "unused"}

\* C27: with P publishers calling publishInspectionJob concurrently, in any
\* interleaving of their checks and publishes with the consumers, the
\* depth of the queue never exceeds maxPending + P - 1, and maxPending
\* with one publisher.
C27_DepthBound ==
  GateDepth <= MaxPending + Max(Cardinality(Publishers), 1) - 1

\* C28: a reader that sees status completed on a job completed through
\* markJobCompleted(result) also sees the result: no state of the document
\* has status completed, progress 100 and no result.
C28_CompletedCarriesResult ==
  \A j \in DOMAIN jobs :
    jobs[j].status = "completed" /\ jobs[j].progress = 100 => jobs[j].result = "result"

\* C29: on amqp the gate rejects only after a successful depth read that
\* reported messageCount >= maxPending with maxPending > 0; after a failed
\* read the depth is taken as 0 and the job is admitted (marked queued,
\* then published); with maxPending 0 every job is admitted.
C29_AmqpGateAdmission ==
  /\ adm.pc = "rejected" =>
       adm.readOk /\ adm.maxPending > 0 /\ adm.at >= adm.maxPending
  /\ (adm.pc # "idle" /\ ~adm.readOk) =>
       adm.depth = 0 /\ adm.pc \in {"markQueued", "publish", "published"}
  /\ (adm.pc # "idle" /\ adm.maxPending = 0) =>
       adm.pc \in {"markQueued", "publish", "published"}
  /\ adm.pc \in {"publish", "published"} => adm.status = "queued"

C29_Witness ==
  /\ adm.pc = "published"
  /\ ~adm.readOk
  /\ adm.maxPending > 0
  /\ adm.at >= adm.maxPending
  /\ adm.status = "queued"

\* C30: whatever the interleaving of concurrent initRabbitMQ and
\* publishMessage callers in a process that starts with no connection, at
\* most one connection and one channel are created, every caller that
\* obtained a channel uses the module's channel, and no connection is
\* open without being the module's connection.
C30_OneConnectionOneChannel ==
  /\ rabbit.conns <= 1
  /\ rabbit.chans <= 1
  /\ \A c \in CallerIds :
       rabbit.callers[c].result = "ok" => rabbit.callers[c].got = rabbit.channel
  /\ rabbit.conns > 0 => rabbit.connection = rabbit.conns
====
